---- MODULE Spec2Model ----
(***************************************************************************)
(* Model of the event-handler engine of whatsapp_mcp: the EventMatcher     *)
(* (filter evaluation, rate limiter, circuit breaker, priority order),     *)
(* the ActionExecutor (execution units, directives, variable substitution) *)
(* and the handler table of the SQLite store they read and write.          *)
(*                                                                         *)
(* Go values of type interface{} are tagged records [k |-> kind, v |-> _]: *)
(* a type assertion x.(string) succeeds exactly when x.k = "string".       *)
(* A Go string is a sequence of tokens (a token stands for one or more     *)
(* bytes that the model never splits), so prefix, suffix, substring and    *)
(* lower-casing are computed on the sequence.  A Go map is a function      *)
(* whose DOMAIN is the set of keys present.                                *)
(***************************************************************************)
EXTENDS Integers, Sequences, FiniteSets, TLC

VARIABLES
  now,         \* time.Now().Unix(), in seconds
  store,       \* table event_handlers: handler_id -> <<>> (no row) or <<row>>
  executions,  \* table handler_executions, in insertion order
  handlers,    \* EventMatcher.handlers: the in-memory snapshot
  rateLimits,  \* EventMatcher.rateLimits: handler_id -> <<>> or <<RateLimiter>>
  units,       \* the goroutines started by ExecuteHandlersForEvent
  sent,        \* calls made to the messaging client, in order
  mainloop,    \* the operation loop of mainWorker (one operation at a time)
  matched,     \* result of the last MatchEvent call
  arg,         \* input of the function under study (function-level specifications)
  ret          \* <<>> before the call, <<result>> after it

vars == <<now, store, executions, handlers, rateLimits, units, sent, mainloop,
          matched, arg, ret>>

engineVars == <<now, store, executions, handlers, rateLimits, units, sent,
                mainloop, matched>>

-----------------------------------------------------------------------------
(* Go values *)

S(x) == [k |-> "string", v |-> x]
B(b) == [k |-> "bool", v |-> <<b>>]
N(n) == [k |-> "number", v |-> <<n>>]
L(l) == [k |-> "list", v |-> l]
M(m) == [k |-> "map", v |-> m]

Range(s) == {s[i] : i \in DOMAIN s}

\* x, ok := m[key].(string); the zero value "" when the assertion fails
GoString(m, key) == IF key \in DOMAIN m /\ m[key].k = "string" THEN m[key].v ELSE <<>>

\* x, ok := m[key].(bool)
IsBool(m, key) == key \in DOMAIN m /\ m[key].k = "bool"
GoBool(m, key) == IF IsBool(m, key) THEN m[key].v[1] ELSE FALSE

\* x, ok := m[key].([]interface{}); ok && len(x) > 0
IsNonEmptyList(m, key) == key \in DOMAIN m /\ m[key].k = "list" /\ Len(m[key].v) > 0

\* strings.ToLower: the model's alphabet has the upper-case tokens "A" and "B"
ToLower(s) == [i \in DOMAIN s |-> CASE s[i] = "A" -> "a" [] s[i] = "B" -> "b" [] OTHER -> s[i]]

\* strings.Contains
Contains(s, sub) ==
  \E i \in 0..(Len(s) - Len(sub)) : SubSeq(s, i + 1, i + Len(sub)) = sub

\* regexp.MatchString on the patterns of the model: a pattern holding the
\* token "(" (never closed) does not compile; any other pattern is a literal
\* and matches when it occurs anywhere in the text.
RegexpMatchString(pattern, text) ==
  IF "(" \in Range(pattern)
  THEN [matched |-> FALSE, err |-> TRUE]
  ELSE [matched |-> Contains(text, pattern), err |-> FALSE]

containsString(slice, str) ==
  \E i \in DOMAIN slice : slice[i].k = "string" /\ slice[i].v = str

-----------------------------------------------------------------------------
(* EventMatcher.matchesFilter *)

checkEventTypes(filter, event) ==
  IsNonEmptyList(filter, "event_types")
    => containsString(filter["event_types"].v, GoString(event, "event_type"))

checkIsFromMe(filter, event) ==
  IsBool(filter, "is_from_me")
    => GoBool(filter, "is_from_me") = GoBool(event, "is_from_me")

checkMessageTypes(filter, event) ==
  IsNonEmptyList(filter, "message_types")
    => containsString(filter["message_types"].v, GoString(event, "message_type"))

checkFromJIDs(filter, event) ==
  IsNonEmptyList(filter, "from_jids")
    => containsString(filter["from_jids"].v, GoString(event, "from"))

checkChatJIDs(filter, event) ==
  IsNonEmptyList(filter, "chat_jids")
    => containsString(filter["chat_jids"].v, GoString(event, "chat"))

checkIsGroup(filter, event) ==
  IsBool(filter, "is_group")
    => GoBool(filter, "is_group") = GoBool(event, "is_group")

checkGroupJIDsNoGroupTest(filter, event) ==
  IsNonEmptyList(filter, "group_jids")
    => containsString(filter["group_jids"].v, GoString(event, "chat"))

checkGroupJIDs(filter, event) ==
  IsNonEmptyList(filter, "group_jids")
    => ~(~GoBool(event, "is_group")
         \/ ~containsString(filter["group_jids"].v, GoString(event, "chat")))

checkHasMedia(filter, event) ==
  IsBool(filter, "has_media")
    => GoBool(filter, "has_media") = (GoString(event, "media_type") # <<>>)

checkHasQuotedMessage(filter, event) ==
  IsBool(filter, "has_quoted_message")
    => GoBool(filter, "has_quoted_message") = (GoString(event, "quoted_message_id") # <<>>)

checkTextContains(filter, event) ==
  IsNonEmptyList(filter, "text_contains")
    => LET textContent == ToLower(GoString(event, "text_content"))
           textContains == filter["text_contains"].v
       IN \E i \in DOMAIN textContains :
             /\ textContains[i].k = "string"
             /\ Contains(textContent, ToLower(textContains[i].v))

\* a text_regex check that lets a pattern that does not compile pass
checkTextRegexLax(filter, event) ==
  GoString(filter, "text_regex") # <<>>
    => LET r == RegexpMatchString(GoString(filter, "text_regex"),
                                  GoString(event, "text_content"))
       IN r.err \/ r.matched

checkTextRegex(filter, event) ==
  GoString(filter, "text_regex") # <<>>
    => LET r == RegexpMatchString(GoString(filter, "text_regex"),
                                  GoString(event, "text_content"))
       IN ~(r.err \/ ~r.matched)

matchesFilter(handler, event) ==
  IF "event_filter" \in DOMAIN handler /\ handler["event_filter"].k = "map"
  THEN LET filter == handler["event_filter"].v
       IN /\ checkEventTypes(filter, event)
          /\ checkIsFromMe(filter, event)
          /\ checkMessageTypes(filter, event)
          /\ checkFromJIDs(filter, event)
          /\ checkChatJIDs(filter, event)
          /\ checkIsGroup(filter, event)
          /\ checkGroupJIDs(filter, event)
          /\ checkHasMedia(filter, event)
          /\ checkHasQuotedMessage(filter, event)
          /\ checkTextContains(filter, event)
          /\ checkTextRegex(filter, event)
  ELSE FALSE

-----------------------------------------------------------------------------
(* Function-level specification of matchesFilter: the filter and the event  *)
(* are drawn from bounded sets, the action applies the function.            *)

\* the engine's variables, unused by the function-level specifications
EngineOff ==
  /\ now = 0
  /\ store = <<>>
  /\ executions = <<>>
  /\ handlers = <<>>
  /\ rateLimits = <<>>
  /\ units = <<>>
  /\ sent = <<>>
  /\ mainloop = <<>>
  /\ matched = <<>>

FilterClauses ==
  {<<>>}
  \cup {"event_types" :> L(l) : l \in {<<>>, <<S(<<"message">>)>>, <<S(<<"presence">>)>>}}
  \cup {"is_from_me" :> B(b) : b \in BOOLEAN}
  \cup {"message_types" :> L(l) : l \in {<<S(<<"text">>)>>, <<S(<<"image">>), S(<<"text">>)>>}}
  \cup {"from_jids" :> L(l) : l \in {<<S(<<"alice">>)>>, <<S(<<"bob">>)>>}}
  \cup {"chat_jids" :> L(l) : l \in {<<S(<<"alice">>)>>, <<S(<<"grp">>)>>}}
  \cup {"is_group" :> B(b) : b \in BOOLEAN}
  \cup {"group_jids" :> L(l) : l \in {<<S(<<"alice">>)>>, <<S(<<"grp">>)>>}}
  \cup {"has_media" :> B(b) : b \in BOOLEAN}
  \cup {"has_quoted_message" :> B(b) : b \in BOOLEAN}
  \cup {"text_contains" :> L(l) : l \in {<<S(<<"a">>)>>, <<S(<<"A", "B">>)>>,
                                         <<S(<<"b", "b">>), S(<<"b">>)>>}}
  \cup {"text_regex" :> S(p) : p \in {<<>>, <<"a">>, <<"(">>, <<"A", "b">>}}

\* filters of at most two clauses
FilterSet == {c1 @@ c2 : c1 \in FilterClauses, c2 \in FilterClauses}

Optional(key, values) == {<<>>} \cup {key :> x : x \in values}

FilterEvents ==
  {("event_type" :> S(<<t>>)) @@ ("is_from_me" :> B(me)) @@ ("is_group" :> B(grp))
     @@ ("message_type" :> S(<<mt>>)) @@ ("from" :> S(<<from>>)) @@ ("chat" :> S(<<chat>>))
     @@ media @@ quoted @@ text :
     t \in {"message", "presence"}, me \in BOOLEAN, grp \in BOOLEAN,
     mt \in {"text", "image"}, from \in {"alice", "bob"}, chat \in {"alice", "grp"},
     media \in Optional("media_type", {S(<<>>), S(<<"image">>)}),
     quoted \in Optional("quoted_message_id", {S(<<"q1">>)}),
     text \in Optional("text_content", {S(<<"A", "b">>), S(<<"b">>)})}

InitFilter ==
  /\ EngineOff
  /\ arg \in [filter : FilterSet, event : FilterEvents]
  /\ ret = <<>>

ApplyMatchesFilter ==
  /\ ret = <<>>
  /\ "filter" \in DOMAIN arg
  /\ ret' = <<matchesFilter("event_filter" :> M(arg.filter), arg.event)>>
  /\ UNCHANGED <<arg, engineVars>>

SpecFilter == InitFilter /\ [][ApplyMatchesFilter]_vars

(* The clauses of a filter, as the specification states them. *)
Members(list) == {x.v : x \in {y \in Range(list) : y.k = "string"}}
ListClause(f, key) == IF IsNonEmptyList(f, key) THEN Members(f[key].v) ELSE {}
Field(e, key) == IF key \in DOMAIN e THEN e[key].v ELSE <<>>
Flag(e, key) == key \in DOMAIN e /\ e[key].v[1]
NonEmpty(e, key) == key \in DOMAIN e /\ e[key].v # <<>>

\* the clauses other than text_contains
OtherClausesSatisfied(f, e) ==
  /\ IsNonEmptyList(f, "event_types") => Field(e, "event_type") \in ListClause(f, "event_types")
  /\ IsNonEmptyList(f, "message_types") => Field(e, "message_type") \in ListClause(f, "message_types")
  /\ IsNonEmptyList(f, "from_jids") => Field(e, "from") \in ListClause(f, "from_jids")
  /\ IsNonEmptyList(f, "chat_jids") => Field(e, "chat") \in ListClause(f, "chat_jids")
  /\ "is_from_me" \in DOMAIN f => (f["is_from_me"].v[1] <=> Flag(e, "is_from_me"))
  /\ "is_group" \in DOMAIN f => (f["is_group"].v[1] <=> Flag(e, "is_group"))
  /\ IsNonEmptyList(f, "group_jids")
       => Flag(e, "is_group") /\ Field(e, "chat") \in ListClause(f, "group_jids")
  /\ "has_media" \in DOMAIN f => (f["has_media"].v[1] <=> NonEmpty(e, "media_type"))
  /\ "has_quoted_message" \in DOMAIN f
       => (f["has_quoted_message"].v[1] <=> NonEmpty(e, "quoted_message_id"))
  /\ ("text_regex" \in DOMAIN f /\ f["text_regex"].v # <<>>)
       => \E i \in 1..(Len(Field(e, "text_content")) + 1), j \in 0..Len(Field(e, "text_content")) :
             /\ "(" \notin Range(f["text_regex"].v)
             /\ SubSeq(Field(e, "text_content"), i, j) = f["text_regex"].v

\* C1 as stated: matchesFilter is true exactly when every present clause is
\* satisfied, the list clauses, text_contains among them, being membership
\* tests of the event's field in the list.
C1_AsStated ==
  (ret # <<>> /\ "filter" \in DOMAIN arg) =>
    (ret[1] <=> /\ OtherClausesSatisfied(arg.filter, arg.event)
                /\ IsNonEmptyList(arg.filter, "text_contains")
                     => Field(arg.event, "text_content") \in ListClause(arg.filter, "text_contains"))

\* C1 amended: matchesFilter is true exactly when every present clause is
\* satisfied, where text_contains is satisfied when some listed keyword
\* occurs in text_content as a substring, letter case ignored, and the
\* other list clauses are membership tests.
C1_FilterMatchesIffClauses ==
  (ret # <<>> /\ "filter" \in DOMAIN arg) =>
    (ret[1] <=> /\ OtherClausesSatisfied(arg.filter, arg.event)
                /\ IsNonEmptyList(arg.filter, "text_contains")
                     => \E kw \in ListClause(arg.filter, "text_contains") :
                          LET text == ToLower(Field(arg.event, "text_content"))
                          IN \E i \in 1..(Len(text) + 1), j \in 0..Len(text) :
                                SubSeq(text, i, j) = ToLower(kw))

\* a filter of two clauses, one of them text_contains, matched by an event
\* whose text holds the keyword in another letter case
C1_Witness ==
  /\ ret = <<TRUE>>
  /\ "filter" \in DOMAIN arg
  /\ IsNonEmptyList(arg.filter, "text_contains")
  /\ IsNonEmptyList(arg.filter, "group_jids")
  /\ Field(arg.event, "text_content") \notin ListClause(arg.filter, "text_contains")

-----------------------------------------------------------------------------
(* The handler store (Database): table event_handlers.                      *)
(* store[id] is <<>> when no row has that handler_id, else <<row>>.  A      *)
(* nullable column holds <<>> (NULL) or <<value>>.  The columns description,*)
(* created_at and updated_at are left out: the engine never reads them.     *)

I(n) == [k |-> "int", v |-> <<n>>]
I64(n) == [k |-> "int64", v |-> <<n>>]

HandlerIds == {"a", "b", "c"}

\* byte order of the handler ids (ORDER BY handler_id, BINARY collation)
IdRank(id) == CASE id = "a" -> 1 [] id = "b" -> 2 [] id = "c" -> 3

\* time.Time.Format(time.RFC3339) and time.Parse(time.RFC3339, s)
FormatRFC3339(t) == <<"T", t>>
ParseRFC3339(s) ==
  IF Len(s) = 2 /\ s[1] = "T" THEN [err |-> FALSE, t |-> s[2]] ELSE [err |-> TRUE, t |-> 0]

IsNumber(m, key) == key \in DOMAIN m /\ m[key].k \in {"int", "int64", "number"}

\* a bound query parameter handler[key] in a column of INTEGER affinity:
\* nil (NULL) when the key is absent, the integer of a number, and a string
\* that is no numeral stays the TEXT it is: <<"text", string>>
NullableInt(m, key) ==
  IF IsNumber(m, key) THEN <<m[key].v[1]>>
  ELSE IF key \in DOMAIN m /\ m[key].k = "string" THEN <<"text", m[key].v>>
  ELSE <<>>

\* the column holds TEXT
IsText(col) == Len(col) = 2

\* Scan of the column into an int fails: NULL or TEXT
NotInt(col) == col = <<>> \/ IsText(col)

\* json.Marshal of handler[key] followed, on the way back, by json.Unmarshal
\* into a map[string]interface{}: a JSON object comes back as it was; null
\* (the key was absent) and any other JSON value leave the map nil.
JSONColumn(m, key) == IF key \in DOMAIN m THEN m[key] ELSE [k |-> "null", v |-> <<>>]

\* json.Unmarshal into an interface{}: any JSON value comes back as it was
UnmarshalAny(json) == json

UnmarshalMap(json) == IF json.k = "map" THEN json ELSE M(<<>>)

DefaultThreshold == 5
DefaultResetSeconds == 300
OpenByDefault == <<"open">>

\* circuit_breaker_state TEXT DEFAULT 'closed'
DefaultCircuitBreakerState == <<"closed">>

\* the row that INSERT OR REPLACE writes: the columns the statement names
\* come from the handler map, every other column takes its schema default
SaveHandlerRow(handler) ==
  [ handler_id |-> GoString(handler, "handler_id"),
    event_filter |-> JSONColumn(handler, "event_filter"),
    action |-> JSONColumn(handler, "action"),
    enabled |-> IF IsBool(handler, "enabled") /\ ~GoBool(handler, "enabled") THEN 0 ELSE 1,
    priority |-> NullableInt(handler, "priority"),
    max_executions_per_minute |-> NullableInt(handler, "max_executions_per_minute"),
    max_executions_per_hour |-> NullableInt(handler, "max_executions_per_hour"),
    max_executions_per_sender_per_hour |->
      NullableInt(handler, "max_executions_per_sender_per_hour"),
    cooldown_seconds |-> NullableInt(handler, "cooldown_seconds"),
    timeout_seconds |-> NullableInt(handler, "timeout_seconds"),
    circuit_breaker_enabled |->
      IF IsBool(handler, "circuit_breaker_enabled")
           /\ ~GoBool(handler, "circuit_breaker_enabled") THEN 0
      ELSE IF "circuit_breaker_enabled" \in DOMAIN handler
                /\ handler["circuit_breaker_enabled"].k = "int"
           THEN handler["circuit_breaker_enabled"].v[1]
      ELSE IF "circuit_breaker_enabled" \in DOMAIN handler
                /\ handler["circuit_breaker_enabled"].k = "number"
                /\ handler["circuit_breaker_enabled"].v[1] = 0 THEN 0
      ELSE 1,
    circuit_breaker_threshold |->
      IF IsNumber(handler, "circuit_breaker_threshold")
      THEN handler["circuit_breaker_threshold"].v[1] ELSE DefaultThreshold,
    circuit_breaker_reset_seconds |->
      IF IsNumber(handler, "circuit_breaker_reset_seconds")
      THEN handler["circuit_breaker_reset_seconds"].v[1] ELSE DefaultResetSeconds,
    execution_count |-> 0,
    last_executed |-> <<>>,
    last_error |-> <<>>,
    last_error_time |-> <<>>,
    total_errors |-> 0,
    circuit_breaker_state |-> <<DefaultCircuitBreakerState>> ]

\* Database.SaveHandler: the table after the statement
SaveHandler(db, handler) ==
  LET row == SaveHandlerRow(handler)
  IN IF Len(row.handler_id) = 1 /\ row.handler_id[1] \in HandlerIds
     THEN [db EXCEPT ![row.handler_id[1]] = <<row>>]
     ELSE db

\* the sql.NullInt64 destinations of the Scan of GetHandler
NullInt64Columns(row) ==
  <<row.max_executions_per_minute, row.max_executions_per_hour,
    row.max_executions_per_sender_per_hour, row.cooldown_seconds, row.timeout_seconds>>

\* Database.GetHandler: [err, handler]; err when no row matches (sql.ErrNoRows),
\* when Scan meets NULL or TEXT in the int destination priority, or TEXT in a
\* sql.NullInt64 destination
GetHandler(db, handlerID) ==
  IF \/ db[handlerID] = <<>>
     \/ NotInt(db[handlerID][1].priority)
     \/ \E k \in 1..5 : IsText(NullInt64Columns(db[handlerID][1])[k])
  THEN [err |-> TRUE, handler |-> <<>>]
  ELSE
    LET row == db[handlerID][1]
        opt(key, col) == IF col = <<>> THEN <<>> ELSE key :> I64(col[1])
        base == ("handler_id" :> S(row.handler_id))
                @@ ("event_filter" :> UnmarshalMap(row.event_filter))
                @@ ("action" :> UnmarshalMap(row.action))
                @@ ("enabled" :> B(row.enabled = 1))
                @@ ("priority" :> I(row.priority[1]))
                @@ ("execution_count" :> I(row.execution_count))
                @@ ("total_errors" :> I(row.total_errors))
        breaker == IF row.circuit_breaker_enabled = 1
                   THEN ("circuit_breaker_enabled" :> B(TRUE))
                        @@ ("circuit_breaker_threshold" :> I64(row.circuit_breaker_threshold))
                        @@ ("circuit_breaker_reset_seconds"
                              :> I64(row.circuit_breaker_reset_seconds))
                   ELSE <<>>
        times == (IF row.last_executed = <<>> THEN <<>>
                  ELSE "last_executed" :> S(FormatRFC3339(row.last_executed[1])))
                 @@ (IF row.last_error = <<>> THEN <<>>
                     ELSE "last_error" :> S(row.last_error[1]))
                 @@ (IF row.last_error_time = <<>> THEN <<>>
                     ELSE "last_error_time" :> S(FormatRFC3339(row.last_error_time[1])))
        state == "circuit_breaker_state" :>
                   (IF row.circuit_breaker_state = <<>> THEN S(<<"closed">>)
                    ELSE S(row.circuit_breaker_state[1]))
    IN [err |-> FALSE,
        handler |-> base
                    @@ opt("max_executions_per_minute", row.max_executions_per_minute)
                    @@ opt("max_executions_per_hour", row.max_executions_per_hour)
                    @@ opt("max_executions_per_sender_per_hour",
                           row.max_executions_per_sender_per_hour)
                    @@ opt("cooldown_seconds", row.cooldown_seconds)
                    @@ opt("timeout_seconds", row.timeout_seconds)
                    @@ breaker @@ times @@ state]

\* ORDER BY priority DESC, handler_id
RowBefore(db, x, y) ==
  \/ db[x][1].priority[1] > db[y][1].priority[1]
  \/ db[x][1].priority[1] = db[y][1].priority[1] /\ IdRank(x) < IdRank(y)

RECURSIVE OrderRows(_, _)
OrderRows(db, ids) ==
  IF ids = {} THEN <<>>
  ELSE LET first == CHOOSE x \in ids : \A y \in ids \ {x} : RowBefore(db, x, y)
       IN <<first>> \o OrderRows(db, ids \ {first})

\* Database.ListHandlers: [err, ids], the handler_id of the listed rows in
\* the order of the query; err when Scan meets a NULL or TEXT priority
ListHandlers(db, enabledOnly) ==
  LET ids == {id \in HandlerIds : db[id] # <<>> /\ (enabledOnly => db[id][1].enabled = 1)}
  IN IF \E id \in ids : NotInt(db[id][1].priority)
     THEN [err |-> TRUE, ids |-> <<>>]
     ELSE [err |-> FALSE, ids |-> OrderRows(db, ids)]

\* Database.DeleteHandler
DeleteHandler(db, handlerID) == [db EXCEPT ![handlerID] = <<>>]

\* Database.UpdateHandlerEnabled
UpdateHandlerEnabled(db, handlerID, enabled) ==
  IF db[handlerID] = <<>> THEN db
  ELSE [db EXCEPT ![handlerID][1].enabled = IF enabled THEN 1 ELSE 0]

\* an UPDATE that, for a failure, lacks the WHERE clause: the error columns
\* of every handler are written
UpdateStatsOfAllOnFailure(db, handlerID, success, errorMsg, t) ==
  IF db[handlerID] = <<>> THEN db
  ELSE IF success
  THEN [db EXCEPT ![handlerID][1].execution_count = @ + 1,
                  ![handlerID][1].last_executed = <<t>>]
  ELSE [id \in HandlerIds |->
          IF db[id] = <<>> THEN <<>>
          ELSE <<[db[id][1] EXCEPT !.execution_count = @ + 1,
                                   !.total_errors = @ + 1,
                                   !.last_executed = <<t>>,
                                   !.last_error = <<errorMsg>>,
                                   !.last_error_time = <<t>>]>>]

\* Database.UpdateHandlerStats, executed at time t
UpdateHandlerStats(db, handlerID, success, errorMsg, t) ==
  IF db[handlerID] = <<>> THEN db
  ELSE IF success
  THEN [db EXCEPT ![handlerID][1].execution_count = @ + 1,
                  ![handlerID][1].last_executed = <<t>>]
  ELSE [db EXCEPT ![handlerID][1].execution_count = @ + 1,
                  ![handlerID][1].total_errors = @ + 1,
                  ![handlerID][1].last_executed = <<t>>,
                  ![handlerID][1].last_error = <<errorMsg>>,
                  ![handlerID][1].last_error_time = <<t>>]

\* an INSERT that stores the successful executions only
LogSuccessfulExecution(log, execution) ==
  IF IsBool(execution, "success") /\ GoBool(execution, "success")
  THEN Append(log,
         [ handler_id |-> GoString(execution, "handler_id"),
           event_id |-> GoString(execution, "event_id"),
           started_at |-> execution["started_at"].v[1],
           completed_at |-> execution["completed_at"].v[1],
           success |-> 1,
           error |-> <<>>,
           actions_executed |-> NullableInt(execution, "actions_executed") ])
  ELSE log

\* Database.LogHandlerExecution: the table after the INSERT
LogHandlerExecution(log, execution) ==
  Append(log,
    [ handler_id |-> GoString(execution, "handler_id"),
      event_id |-> GoString(execution, "event_id"),
      started_at |-> execution["started_at"].v[1],
      completed_at |-> execution["completed_at"].v[1],
      success |-> IF IsBool(execution, "success") /\ GoBool(execution, "success")
                  THEN 1 ELSE 0,
      error |-> IF "error" \in DOMAIN execution THEN <<execution["error"].v>> ELSE <<>>,
      actions_executed |-> NullableInt(execution, "actions_executed") ])

-----------------------------------------------------------------------------
(* RateLimiter, cooldown and circuit breaker of the EventMatcher *)

SecondsPerMinute == 60
SecondsPerHour == 3600
CleanupAge == 7200

\* Go integer division truncates toward zero
GoDiv(a, b) == IF a >= 0 THEN a \div b ELSE -((-a) \div b)

\* m[key] of a Go map with int values: 0 when the key is absent
Count(m, key) == IF key \in DOMAIN m THEN m[key] ELSE 0
Put(m, key, value) == (key :> value) @@ m
Without(m, keys) == [x \in DOMAIN m \ keys |-> m[x]]

\* x, ok := handler[key].(int64)
IsInt64(m, key) == key \in DOMAIN m /\ m[key].k = "int64"

NewRateLimiter ==
  [perMinuteCounts |-> <<>>, perHourCounts |-> <<>>, perSenderCounts |-> <<>>,
   lastExecution |-> <<>>]

\* the limiter of handlerID, created when the map has none
WithLimiter(rl, handlerID) ==
  IF rl[handlerID] = <<>> THEN [rl EXCEPT ![handlerID] = <<NewRateLimiter>>] ELSE rl

HandlerID(handler) == handler["handler_id"].v[1]

perMinuteBlocksAbove(limiter, currentMinute, maxPerMin) ==
  Count(limiter.perMinuteCounts, currentMinute) > maxPerMin

perMinuteBlocks(limiter, currentMinute, maxPerMin) ==
  Count(limiter.perMinuteCounts, currentMinute) >= maxPerMin

\* a check that counts the execution it allows
checkRateLimitsCounting(rl, handler, event, t) ==
  LET handlerID == HandlerID(handler)
      rl1 == WithLimiter(rl, handlerID)
      limiter == rl1[handlerID][1]
      currentMinute == GoDiv(t, SecondsPerMinute)
  IN IF /\ IsInt64(handler, "max_executions_per_minute")
        /\ handler["max_executions_per_minute"].v[1] > 0
        /\ perMinuteBlocks(limiter, currentMinute, handler["max_executions_per_minute"].v[1])
     THEN [ok |-> FALSE, rateLimits |-> rl1]
     ELSE [ok |-> TRUE,
           rateLimits |-> [rl1 EXCEPT ![handlerID][1].perMinuteCounts =
                             Put(@, currentMinute, Count(@, currentMinute) + 1)]]

\* EventMatcher.checkRateLimits at time t: [ok, rateLimits]
checkRateLimits(rl, handler, event, t) ==
  LET handlerID == HandlerID(handler)
      rl1 == WithLimiter(rl, handlerID)
      limiter == rl1[handlerID][1]
      currentMinute == GoDiv(t, SecondsPerMinute)
      currentHour == GoDiv(t, SecondsPerHour)
      fromJID == GoString(event, "from")
      senderLimit == /\ IsInt64(handler, "max_executions_per_sender_per_hour")
                     /\ handler["max_executions_per_sender_per_hour"].v[1] > 0
                     /\ fromJID # <<>>
      senders == IF fromJID \in DOMAIN limiter.perSenderCounts
                 THEN limiter.perSenderCounts
                 ELSE Put(limiter.perSenderCounts, fromJID, <<>>)
      rl2 == [rl1 EXCEPT ![handlerID][1].perSenderCounts = senders]
  IN IF /\ IsInt64(handler, "max_executions_per_minute")
        /\ handler["max_executions_per_minute"].v[1] > 0
        /\ perMinuteBlocks(limiter, currentMinute, handler["max_executions_per_minute"].v[1])
     THEN [ok |-> FALSE, rateLimits |-> rl1]
     ELSE IF /\ IsInt64(handler, "max_executions_per_hour")
             /\ handler["max_executions_per_hour"].v[1] > 0
             /\ Count(limiter.perHourCounts, currentHour)
                  >= handler["max_executions_per_hour"].v[1]
     THEN [ok |-> FALSE, rateLimits |-> rl1]
     ELSE IF senderLimit
     THEN [ok |-> ~(Count(senders[fromJID], currentHour)
                      >= handler["max_executions_per_sender_per_hour"].v[1]),
           rateLimits |-> rl2]
     ELSE [ok |-> TRUE, rateLimits |-> rl1]

\* EventMatcher.RecordExecution at time t: the limiter map after the call
RecordExecution(rl, handlerID, event, t) ==
  LET rl1 == WithLimiter(rl, handlerID)
      limiter == rl1[handlerID][1]
      currentMinute == GoDiv(t, SecondsPerMinute)
      currentHour == GoDiv(t, SecondsPerHour)
      fromJID == GoString(event, "from")
      minutes == Put(limiter.perMinuteCounts, currentMinute,
                     Count(limiter.perMinuteCounts, currentMinute) + 1)
      hours == Put(limiter.perHourCounts, currentHour,
                   Count(limiter.perHourCounts, currentHour) + 1)
      ofSender == IF fromJID \in DOMAIN limiter.perSenderCounts
                  THEN limiter.perSenderCounts[fromJID] ELSE <<>>
      senders == IF fromJID # <<>>
                 THEN Put(limiter.perSenderCounts, fromJID,
                          Put(ofSender, currentHour, Count(ofSender, currentHour) + 1))
                 ELSE limiter.perSenderCounts
      oldestMinute == GoDiv(t - CleanupAge, SecondsPerMinute)
      oldestHour == GoDiv(t - CleanupAge, SecondsPerHour)
      keptMinutes == Without(minutes, {m \in DOMAIN minutes : m < oldestMinute})
      keptHours == Without(hours, {h \in DOMAIN hours : h < oldestHour})
      trimmed == [s \in DOMAIN senders |->
                    Without(senders[s], {h \in DOMAIN senders[s] : h < oldestHour})]
      keptSenders == Without(trimmed, {s \in DOMAIN trimmed : DOMAIN trimmed[s] = {}})
  IN [rl1 EXCEPT ![handlerID] =
        <<[perMinuteCounts |-> keptMinutes, perHourCounts |-> keptHours,
           perSenderCounts |-> keptSenders, lastExecution |-> <<t>>]>>]

\* EventMatcher.checkCooldown at time t
checkCooldown(rl, handler, t) ==
  IF ~IsInt64(handler, "cooldown_seconds") \/ handler["cooldown_seconds"].v[1] <= 0
  THEN TRUE
  ELSE IF rl[HandlerID(handler)] = <<>> THEN TRUE
  ELSE LET lastExec == rl[HandlerID(handler)][1].lastExecution
       IN IF lastExec = <<>> THEN TRUE
          ELSE t - lastExec[1] >= handler["cooldown_seconds"].v[1]

isCircuitBreakerOpenNoReset(handler, t) ==
  /\ IsBool(handler, "circuit_breaker_enabled") /\ GoBool(handler, "circuit_breaker_enabled")
  /\ GoString(handler, "circuit_breaker_state") = <<"open">>

\* EventMatcher.isCircuitBreakerOpen at time t
isCircuitBreakerOpen(handler, t) ==
  IF ~IsBool(handler, "circuit_breaker_enabled") \/ ~GoBool(handler, "circuit_breaker_enabled")
  THEN FALSE
  ELSE IF GoString(handler, "circuit_breaker_state") # <<"open">> THEN FALSE
  ELSE IF ~("last_error_time" \in DOMAIN handler /\ handler["last_error_time"].k = "string")
  THEN FALSE
  ELSE LET lastError == ParseRFC3339(handler["last_error_time"].v)
           resetSeconds == IF IsInt64(handler, "circuit_breaker_reset_seconds")
                           THEN handler["circuit_breaker_reset_seconds"].v[1]
                           ELSE DefaultResetSeconds
       IN IF lastError.err THEN FALSE
          ELSE IF t - lastError.t >= resetSeconds THEN FALSE
          ELSE TRUE

-----------------------------------------------------------------------------
(* EventMatcher.MatchEvent *)

\* priority, _ := handler["priority"].(int)
Priority(handler) ==
  IF "priority" \in DOMAIN handler /\ handler["priority"].k = "int"
  THEN handler["priority"].v[1] ELSE 0

Swap(hs, j) == [hs EXCEPT ![j] = hs[j + 1], ![j + 1] = hs[j]]

\* the inner loop of the bubble sort, from index j up to index last - 1
RECURSIVE BubblePass(_, _, _)
BubblePass(hs, j, last) ==
  IF j >= last THEN hs
  ELSE BubblePass(IF Priority(hs[j]) < Priority(hs[j + 1]) THEN Swap(hs, j) ELSE hs,
                  j + 1, last)

RECURSIVE BubbleFrom(_, _)
BubbleFrom(hs, i) ==
  IF i >= Len(hs) - 1 THEN hs
  ELSE BubbleFrom(BubblePass(hs, 1, Len(hs) - i), i + 1)

\* sortHandlersByPriority
sortHandlersByPriority(hs) == BubbleFrom(hs, 0)

enabledCheckSkipped(handler) == FALSE

\* the first check of the loop: the handler is skipped unless enabled is true
notEnabled(handler) == ~IsBool(handler, "enabled") \/ ~GoBool(handler, "enabled")

\* the loop of MatchEvent from index i on: [matches, rateLimits]
RECURSIVE MatchFrom(_, _, _, _, _, _)
MatchFrom(snapshot, i, rl, event, t, matches) ==
  IF i > Len(snapshot) THEN [matches |-> matches, rateLimits |-> rl]
  ELSE LET handler == snapshot[i]
           limits == checkRateLimits(rl, handler, event, t)
       IN IF notEnabled(handler) \/ isCircuitBreakerOpen(handler, t)
          THEN MatchFrom(snapshot, i + 1, rl, event, t, matches)
          ELSE IF ~limits.ok \/ ~checkCooldown(limits.rateLimits, handler, t)
          THEN MatchFrom(snapshot, i + 1, limits.rateLimits, event, t, matches)
          ELSE MatchFrom(snapshot, i + 1, limits.rateLimits, event, t,
                         IF matchesFilter(handler, event)
                         THEN Append(matches, handler) ELSE matches)

\* EventMatcher.MatchEvent at time t: [matches, rateLimits]
MatchEvent(snapshot, rl, event, t) ==
  LET r == MatchFrom(snapshot, 1, rl, event, t, <<>>)
  IN [matches |-> sortHandlersByPriority(r.matches), rateLimits |-> r.rateLimits]

-----------------------------------------------------------------------------
(* Function-level specification of isCircuitBreakerOpen *)

BreakerHandlers ==
  {("handler_id" :> S(<<"a">>)) @@ enabled @@ state @@ lastError @@ reset :
     enabled \in Optional("circuit_breaker_enabled", {B(TRUE), B(FALSE)}),
     state \in Optional("circuit_breaker_state", {S(<<"closed">>), S(<<"open">>)}),
     lastError \in Optional("last_error_time",
                            {S(FormatRFC3339(1000)), S(FormatRFC3339(1001)), S(<<"never">>)}),
     reset \in Optional("circuit_breaker_reset_seconds", {I64(2), I64(3)})}

BreakerTimes == {1000, 1001, 1002, 1003, 1004, 1299, 1300, 1301}

InitBreaker ==
  /\ EngineOff
  /\ arg \in [handler : BreakerHandlers, t : BreakerTimes]
  /\ ret = <<>>

ApplyIsCircuitBreakerOpen ==
  /\ ret = <<>>
  /\ "t" \in DOMAIN arg
  /\ ret' = <<isCircuitBreakerOpen(arg.handler, arg.t)>>
  /\ UNCHANGED <<arg, engineVars>>

SpecBreaker == InitBreaker /\ [][ApplyIsCircuitBreakerOpen]_vars

\* the reset window of a handler record, 300 seconds when it states none
ResetWindow(h) ==
  IF "circuit_breaker_reset_seconds" \in DOMAIN h
  THEN h["circuit_breaker_reset_seconds"].v[1] ELSE 300

\* the handler record carries a last_error_time, and it reads as a time
HasLastErrorTime(h) == "last_error_time" \in DOMAIN h /\ Len(h["last_error_time"].v) = 2

\* C7: the breaker check blocks a handler exactly when its breaker is
\* enabled, its state is open and fewer than reset_seconds have elapsed
\* since its last_error_time.
C7_BreakerBlocksIff ==
  (ret # <<>> /\ "t" \in DOMAIN arg) =>
    (ret[1] <=> /\ "circuit_breaker_enabled" \in DOMAIN arg.handler
                /\ arg.handler["circuit_breaker_enabled"].v[1]
                /\ "circuit_breaker_state" \in DOMAIN arg.handler
                /\ arg.handler["circuit_breaker_state"].v = <<"open">>
                /\ HasLastErrorTime(arg.handler)
                /\ arg.t - arg.handler["last_error_time"].v[2] < ResetWindow(arg.handler))

\* an open breaker whose reset window has elapsed lets the attempt through
C7_Witness ==
  /\ ret = <<FALSE>>
  /\ "t" \in DOMAIN arg
  /\ "circuit_breaker_enabled" \in DOMAIN arg.handler
  /\ arg.handler["circuit_breaker_enabled"].v[1]
  /\ "circuit_breaker_state" \in DOMAIN arg.handler
  /\ arg.handler["circuit_breaker_state"].v = <<"open">>
  /\ HasLastErrorTime(arg.handler)
  /\ arg.t - arg.handler["last_error_time"].v[2] >= ResetWindow(arg.handler)

-----------------------------------------------------------------------------
(* Specification of the rate limiter: RecordExecution and checkRateLimits   *)
(* called for one handler as the clock advances.  arg.records is the list   *)
(* of the times at which RecordExecution was called.                        *)

StartTime == 7200
MaxTicks == 3
MaxRecords == 3
MaxPerMinute == 2

NoLimiters == [id \in HandlerIds |-> <<>>]

LimiterHandler(n) ==
  ("handler_id" :> S(<<"a">>)) @@ ("max_executions_per_minute" :> I64(n))

LimiterEvents == {"from" :> S(<<"alice">>), "from" :> S(<<"bob">>), <<>>}

InitLimiter ==
  /\ now = StartTime
  /\ store = <<>>
  /\ executions = <<>>
  /\ handlers = <<>>
  /\ rateLimits = NoLimiters
  /\ units = <<>>
  /\ sent = <<>>
  /\ mainloop = <<>>
  /\ matched = <<>>
  /\ arg \in [handler : {LimiterHandler(n) : n \in 1..MaxPerMinute}, records : {<<>>},
               ticks : {0}]
  /\ ret = <<>>

LimiterRecord ==
  /\ "records" \in DOMAIN arg
  /\ Len(arg.records) < MaxRecords
  /\ \E event \in LimiterEvents :
       rateLimits' = RecordExecution(rateLimits, HandlerID(arg.handler), event, now)
  /\ arg' = [arg EXCEPT !.records = Append(@, now)]
  /\ UNCHANGED <<now, store, executions, handlers, units, sent, mainloop, matched, ret>>

\* ret: the answer of the check, its time, and how many RecordExecution
\* calls fell before it into the minute bucket (epoch_seconds / 60) of the check
LimiterCheck ==
  /\ "records" \in DOMAIN arg
  /\ \E event \in LimiterEvents :
       LET r == checkRateLimits(rateLimits, arg.handler, event, now)
       IN /\ rateLimits' = r.rateLimits
          /\ ret' = <<[ok |-> r.ok, t |-> now,
                       inBucket |-> Cardinality({i \in DOMAIN arg.records :
                                       arg.records[i] \div 60 = now \div 60}),
                       before |-> Cardinality({i \in DOMAIN arg.records :
                                       arg.records[i] \div 60 < now \div 60})]>>
  /\ UNCHANGED <<now, store, executions, handlers, units, sent, mainloop, matched, arg>>

LimiterTick ==
  /\ "records" \in DOMAIN arg
  /\ arg.ticks < MaxTicks
  /\ \E d \in {30, 7200} : now' = now + d
  /\ arg' = [arg EXCEPT !.ticks = @ + 1]
  /\ UNCHANGED <<store, executions, handlers, rateLimits, units, sent, mainloop,
                 matched, ret>>

NextLimiter == LimiterRecord \/ LimiterCheck \/ LimiterTick

SpecLimiter == InitLimiter /\ [][NextLimiter]_vars

\* C3: with max_per_minute = N and no other limit, a check is blocked when
\* N RecordExecution calls were made in the minute bucket of the check, and
\* allowed when fewer were: after N calls every check of the bucket is
\* blocked, and the first check of a later bucket is allowed again.
C3_BlockedAfterNAllowedNextBucket ==
  (ret # <<>> /\ "records" \in DOMAIN arg) =>
    (ret[1].ok <=> ret[1].inBucket < arg.handler["max_executions_per_minute"].v[1])

\* a check allowed in a bucket that follows a bucket filled to the limit
C3_Witness ==
  /\ ret # <<>>
  /\ "records" \in DOMAIN arg
  /\ ret[1].ok
  /\ ret[1].before >= arg.handler["max_executions_per_minute"].v[1]

\* a check blocked in the bucket that holds N records
C3_WitnessBlocked ==
  /\ ret # <<>>
  /\ "records" \in DOMAIN arg
  /\ ~ret[1].ok
  /\ ret[1].inBucket = arg.handler["max_executions_per_minute"].v[1]

-----------------------------------------------------------------------------
(* The handler operations of the OperationHandler.  The input data is a     *)
(* decoded JSON object: its numbers are of kind "number" (float64).         *)

EmptyStore == [id \in HandlerIds |-> <<>>]

\* a registration that saves whatever it is given
handleRegisterUnchecked(db, data) ==
  [ok |-> TRUE,
   store |-> SaveHandler(db, data @@ ("handler_id" :> S(<<"a">>)) @@ ("enabled" :> B(TRUE))
                                  @@ ("priority" :> I(0)) @@ ("timeout_seconds" :> I(30)))]

\* handleRegisterHandler: [ok, store]
handleRegisterHandler(db, data) ==
  IF ~("handler_id" \in DOMAIN data /\ data["handler_id"].k = "string"
         /\ data["handler_id"].v # <<>>)
  THEN [ok |-> FALSE, store |-> db]
  ELSE IF "event_filter" \notin DOMAIN data THEN [ok |-> FALSE, store |-> db]
  ELSE IF "action" \notin DOMAIN data THEN [ok |-> FALSE, store |-> db]
  ELSE [ok |-> TRUE,
        store |-> SaveHandler(db, data @@ ("enabled" :> B(TRUE)) @@ ("priority" :> I(0))
                                       @@ ("timeout_seconds" :> I(30)))]

\* handleUpdateHandler, second half: the updates merged into the record
\* that GetHandler returned
MergeUpdates(existing, data) == data @@ existing

\* a send_message directive
SendMessage(to) ==
  M(("type" :> S(<<"send_message">>)) @@ ("to" :> S(to))
    @@ ("message" :> M("conversation" :> S(<<"hello ">>))))

\* an action of type "actions" with the given directives
StaticAction(directives) ==
  ("type" :> S(<<"actions">>)) @@ ("actions" :> L(directives))

\* an action of type "python"
PythonAction == ("type" :> S(<<"python">>)) @@ ("code" :> S(<<"code">>))

FilterAll == <<>>
FilterFromBob == "from_jids" :> L(<<S(<<"bob">>)>>)

HandlerData(id, filter, action, priority) ==
  ("handler_id" :> S(<<id>>)) @@ ("event_filter" :> M(filter)) @@ ("action" :> M(action))
  @@ ("priority" :> N(priority))

MessageFrom(jid, id) ==
  ("event_type" :> S(<<"message">>)) @@ ("message_id" :> S(<<id>>)) @@ ("from" :> S(<<jid>>))
  @@ ("chat" :> S(<<jid>>)) @@ ("is_from_me" :> B(FALSE)) @@ ("is_group" :> B(FALSE))
  @@ ("message_type" :> S(<<"text">>)) @@ ("text_content" :> S(<<"hello ">>))

-----------------------------------------------------------------------------
(* Function-level specification of MatchEvent: one call on a snapshot of    *)
(* handler records as GetHandler returns them, in any order.                *)

MatchPriorities == {1, 5}

MatchConfigs == [enabled : BOOLEAN, priority : MatchPriorities, filter : {FilterAll, FilterFromBob}]

\* the record GetHandler returns for a handler registered with configuration c
MatchRecord(id, c) ==
  LET data == HandlerData(id, c.filter, StaticAction(<<SendMessage(<<"{event.", "from", "}">>)>>),
                          c.priority)
      db == UpdateHandlerEnabled(handleRegisterHandler(EmptyStore, data).store, id, c.enabled)
  IN GetHandler(db, id).handler

IdOrders ==
  {ids \in UNION {[1..n -> HandlerIds] : n \in 0..Cardinality(HandlerIds)} :
     \A i, j \in DOMAIN ids : i # j => ids[i] # ids[j]}

Snapshots ==
  UNION {{[i \in DOMAIN ids |-> MatchRecord(ids[i], c[i])] : c \in [DOMAIN ids -> MatchConfigs]}
         : ids \in IdOrders}

MatchEvents == {MessageFrom("alice", "m1"), MessageFrom("bob", "m2")}

InitMatch ==
  /\ EngineOff
  /\ arg \in [snapshot : Snapshots, event : MatchEvents]
  /\ ret = <<>>

ApplyMatchEvent ==
  /\ ret = <<>>
  /\ "snapshot" \in DOMAIN arg
  /\ ret' = <<MatchEvent(arg.snapshot, NoLimiters, arg.event, StartTime).matches>>
  /\ UNCHANGED <<arg, engineVars>>

SpecMatch == InitMatch /\ [][ApplyMatchEvent]_vars

\* C2: MatchEvent never returns a handler whose enabled field is false:
\* every returned record is a record of the snapshot with enabled = true.
C2_NeverReturnsDisabled ==
  (ret # <<>> /\ "snapshot" \in DOMAIN arg) =>
    \A i \in DOMAIN ret[1] :
      /\ ret[1][i] \in Range(arg.snapshot)
      /\ ret[1][i]["enabled"] # B(FALSE)
      /\ ret[1][i]["enabled"] = B(TRUE)

\* a call that returns a handler from a snapshot which also holds a disabled
\* handler whose filter the event satisfies
C2_Witness ==
  /\ ret # <<>>
  /\ "snapshot" \in DOMAIN arg
  /\ Len(ret[1]) > 0
  /\ \E i \in DOMAIN arg.snapshot :
       /\ arg.snapshot[i]["enabled"] = B(FALSE)
       /\ arg.snapshot[i]["event_filter"] = M(FilterAll)

-----------------------------------------------------------------------------
(* ActionExecutor: variable substitution and directives.                    *)
(* The strings of directives are built from the tokens "{event." (seven     *)
(* bytes), "}" (one byte), field names and words; no other token starts     *)
(* with the bytes of "{event." or ends with "}", and no key of an event is  *)
(* the concatenation of several tokens.                                     *)

\* v[7 : len(v)-1] as the key looked up in eventData: <<key>> or <<>> (no key)
FieldName(v) == IF Len(v) = 3 THEN <<v[2]>> ELSE <<>>

substituteSuffixUnchecked(v, eventData) ==
  IF Len(v) > 1 /\ v[1] = "{event."
       /\ Len(v) >= 2 /\ v[2] \in DOMAIN eventData
  THEN eventData[v[2]] ELSE S(v)

\* the string case of substituteValue
substituteString(v, eventData) ==
  IF Len(v) > 1 /\ v[1] = "{event." /\ v[Len(v)] = "}"
       /\ FieldName(v) # <<>> /\ FieldName(v)[1] \in DOMAIN eventData
  THEN eventData[FieldName(v)[1]]
  ELSE S(v)

\* ActionExecutor.substituteValue
RECURSIVE substituteValue(_, _)
substituteValue(value, eventData) ==
  CASE value.k = "string" -> substituteString(value.v, eventData)
    [] value.k = "map" ->
         M([key \in DOMAIN value.v |-> substituteValue(value.v[key], eventData)])
    [] value.k = "list" ->
         L([i \in DOMAIN value.v |-> substituteValue(value.v[i], eventData)])
    [] OTHER -> value

\* ActionExecutor.substituteVariables
substituteVariables(action, eventData) ==
  [key \in DOMAIN action |-> substituteValue(action[key], eventData)]

IsString(m, key) == key \in DOMAIN m /\ m[key].k = "string"
IsMap(m, key) == key \in DOMAIN m /\ m[key].k = "map"

\* a call of CallWhatsmeowMethod
Call(method, params) == [method |-> method, params |-> params]

\* one directive, after substitution; reply is the Success of the result of
\* CallWhatsmeowMethod when the directive makes the call: [ok, calls]
executeAction(actionMap, reply) ==
  LET skip == [ok |-> FALSE, calls |-> <<>>]
      actionType == GoString(actionMap, "type")
  IN CASE actionType = <<"send_message">> ->
            IF ~IsString(actionMap, "to") \/ ~IsMap(actionMap, "message") THEN skip
            ELSE [ok |-> reply,
                  calls |-> <<Call("SendMessage", ("to" :> actionMap["to"])
                                                  @@ ("message" :> actionMap["message"]))>>]
       [] actionType = <<"send_reaction">> -> skip
       [] actionType = <<"mark_read">> ->
            IF ~("message_ids" \in DOMAIN actionMap /\ actionMap["message_ids"].k = "list")
            THEN skip
            ELSE [ok |-> reply,
                  calls |-> <<Call("MarkRead",
                                   ("message_ids" :> actionMap["message_ids"])
                                   @@ ("chat" :> S(GoString(actionMap, "chat")))
                                   @@ ("sender" :> S(GoString(actionMap, "sender"))))>>]
       [] actionType = <<"send_presence">> ->
            IF ~IsString(actionMap, "state") THEN skip
            ELSE [ok |-> reply,
                  calls |-> <<Call("SendPresence", "state" :> actionMap["state"])>>]
       [] actionType = <<"send_chat_presence">> ->
            IF ~IsString(actionMap, "jid") \/ ~IsString(actionMap, "state") THEN skip
            ELSE [ok |-> reply,
                  calls |-> <<Call("SendChatPresence",
                                   ("jid" :> actionMap["jid"]) @@ ("state" :> actionMap["state"])
                                   @@ (IF IsString(actionMap, "media")
                                       THEN "media" :> actionMap["media"] ELSE <<>>))>>]
       [] actionType = <<"delay">> ->
            IF "seconds" \in DOMAIN actionMap /\ actionMap["seconds"].k = "number"
            THEN [ok |-> TRUE, calls |-> <<>>] ELSE skip
       [] actionType = <<"call_method">> ->
            IF ~IsString(actionMap, "method") THEN skip
            ELSE [ok |-> reply,
                  calls |-> <<Call(actionMap["method"].v,
                                   IF IsMap(actionMap, "params")
                                   THEN actionMap["params"].v ELSE <<>>)>>]
       [] OTHER -> skip

\* a loop that ends at the first directive it skips
RECURSIVE ExecuteUntilSkipped(_, _, _, _, _, _)
ExecuteUntilSkipped(actions, i, eventData, replies, executed, calls) ==
  IF i > Len(actions) THEN [executed |-> executed, calls |-> calls]
  ELSE IF actions[i].k # "map" THEN [executed |-> executed, calls |-> calls]
  ELSE LET r == executeAction(substituteVariables(actions[i].v, eventData), replies[i])
       IN IF ~r.ok /\ r.calls = <<>> THEN [executed |-> executed, calls |-> calls]
          ELSE ExecuteUntilSkipped(actions, i + 1, eventData, replies,
                                   IF r.ok THEN executed + 1 ELSE executed,
                                   calls \o r.calls)

\* the loop of executeReturnedActions from index i on; replies[i] answers
\* the call of directive i: [executed, calls]
RECURSIVE ExecuteFrom(_, _, _, _, _, _)
ExecuteFrom(actions, i, eventData, replies, executed, calls) ==
  IF i > Len(actions) THEN [executed |-> executed, calls |-> calls]
  ELSE IF actions[i].k # "map"
  THEN ExecuteFrom(actions, i + 1, eventData, replies, executed, calls)
  ELSE LET r == executeAction(substituteVariables(actions[i].v, eventData), replies[i])
       IN ExecuteFrom(actions, i + 1, eventData, replies,
                      IF r.ok THEN executed + 1 ELSE executed, calls \o r.calls)

\* ActionExecutor.executeReturnedActions: [executed, calls]
executeReturnedActions(actions, eventData, replies) ==
  ExecuteFrom(actions, 1, eventData, replies, 0, <<>>)

\* executeDirectActions reporting success only when every directive was
\* executed
executeAllOrFail(action, eventData, replies) ==
  IF ~("actions" \in DOMAIN action /\ action["actions"].k = "list")
  THEN [err |-> <<"missing actions array">>, result |-> <<>>, calls |-> <<>>]
  ELSE LET r == executeReturnedActions(action["actions"].v, eventData, replies)
       IN [err |-> <<>>,
           result |-> ("success" :> B(r.executed = Len(action["actions"].v)))
                      @@ ("actions_executed" :> I(r.executed)),
           calls |-> r.calls]

\* executeDirectActions handing the directives back with its result
executeDirectActionsReturning(action, eventData, replies) ==
  IF ~("actions" \in DOMAIN action /\ action["actions"].k = "list")
  THEN [err |-> <<"missing actions array">>, result |-> <<>>, calls |-> <<>>]
  ELSE LET r == executeReturnedActions(action["actions"].v, eventData, replies)
       IN [err |-> <<>>,
           result |-> ("success" :> B(TRUE)) @@ ("actions_executed" :> I(r.executed))
                      @@ ("actions" :> action["actions"]),
           calls |-> r.calls]

\* ActionExecutor.executeDirectActions: [err, result, calls]
executeDirectActions(action, eventData, replies) ==
  IF ~("actions" \in DOMAIN action /\ action["actions"].k = "list")
  THEN [err |-> <<"missing actions array">>, result |-> <<>>, calls |-> <<>>]
  ELSE LET r == executeReturnedActions(action["actions"].v, eventData, replies)
       IN [err |-> <<>>,
           result |-> ("success" :> B(TRUE)) @@ ("actions_executed" :> I(r.executed)),
           calls |-> r.calls]

\* ActionExecutor.executePythonAction; outcome is what the python tool call
\* produced, [err, result]: an error, or the decoded return value
executePythonAction(action, eventData, outcome) ==
  IF GoString(action, "code") = <<>>
  THEN [err |-> <<"missing Python code">>, result |-> <<>>, calls |-> <<>>]
  ELSE [err |-> outcome.err, result |-> outcome.result, calls |-> <<>>]

\* ActionExecutor.prepareEventData; download is <<>> when downloadMedia
\* failed, else <<path>>
prepareEventData(event, download) ==
  IF GoString(event, "media_type") # <<>> /\ download # <<>> /\ download[1] # <<>>
  THEN ("media_path" :> S(download[1])) @@ ("has_media" :> B(TRUE)) @@ event
  ELSE event

\* a time.Time value
T(t) == [k |-> "time", v |-> <<t>>]

\* the record logExecutionSuccess hands to LogHandlerExecution
logExecutionSuccess(handlerID, event, startTime, actionsExecuted, t) ==
  ("handler_id" :> S(<<handlerID>>)) @@ ("event_id" :> S(GoString(event, "message_id")))
  @@ ("started_at" :> T(startTime)) @@ ("completed_at" :> T(t))
  @@ ("success" :> B(TRUE)) @@ ("actions_executed" :> I(actionsExecuted))

\* the record logExecutionError hands to LogHandlerExecution
logExecutionError(handlerID, event, startTime, errorMsg, t) ==
  ("handler_id" :> S(<<handlerID>>)) @@ ("event_id" :> S(GoString(event, "message_id")))
  @@ ("started_at" :> T(startTime)) @@ ("completed_at" :> T(t))
  @@ ("success" :> B(FALSE)) @@ ("error" :> S(errorMsg))

\* executeHandler from the action lookup to the execution record, at time t:
\* [execution, calls, success, errorMsg, closing]; closing is FALSE on the
\* path that returns before the breaker and stats updates
RunAction(handler, event, startTime, t, download, outcome, replies, moreReplies) ==
  LET handlerID == HandlerID(handler)
      eventData == prepareEventData(event, download)
      failed(msg, closing) ==
        [execution |-> logExecutionError(handlerID, event, startTime, msg, t),
         calls |-> <<>>, success |-> FALSE, errorMsg |-> msg, closing |-> closing]
  IN IF ~IsMap(handler, "action") THEN failed(<<"Invalid action definition">>, FALSE)
     ELSE
       LET action == handler["action"].v
           actionType == GoString(action, "type")
           r == CASE actionType = <<"python">> -> executePythonAction(action, eventData, outcome)
                  [] actionType = <<"actions">> ->
                       executeDirectActions(action, eventData, replies)
                  [] OTHER -> [err |-> <<"unknown action type">>, result |-> <<>>,
                               calls |-> <<>>]
       IN IF r.err # <<>>
          THEN [failed(r.err, TRUE) EXCEPT !.calls = r.calls]
          ELSE IF ~(IsBool(r.result, "success") /\ GoBool(r.result, "success"))
          THEN [failed(GoString(r.result, "error"), TRUE) EXCEPT !.calls = r.calls]
          ELSE LET returned == IF "actions" \in DOMAIN r.result /\ r.result["actions"].k = "list"
                               THEN executeReturnedActions(r.result["actions"].v, eventData,
                                                           moreReplies)
                               ELSE [executed |-> 0, calls |-> <<>>]
               IN [execution |-> logExecutionSuccess(handlerID, event, startTime,
                                                     returned.executed, t),
                   calls |-> r.calls \o returned.calls,
                   success |-> TRUE, errorMsg |-> <<>>, closing |-> TRUE]

\* UpdateCircuitBreaker after GetHandler returned existing: <<>> when the
\* call returns without a save, else <<the record passed to SaveHandler>>
BreakerUpdate(existing, success) ==
  IF ~IsBool(existing, "circuit_breaker_enabled") \/ ~GoBool(existing, "circuit_breaker_enabled")
  THEN <<>>
  ELSE IF success
  THEN <<("circuit_breaker_state" :> S(<<"closed">>)) @@ existing>>
  ELSE LET totalErrors == IF "total_errors" \in DOMAIN existing
                               /\ existing["total_errors"].k = "int"
                          THEN existing["total_errors"].v[1] ELSE 0
           threshold == IF IsInt64(existing, "circuit_breaker_threshold")
                        THEN existing["circuit_breaker_threshold"].v[1] ELSE DefaultThreshold
       IN IF totalErrors >= threshold
          THEN <<("circuit_breaker_state" :> S(<<"open">>)) @@ existing>>
          ELSE <<>>

-----------------------------------------------------------------------------
(* The engine: the operation loop of mainWorker, the dispatch of inbound    *)
(* events and the execution units.  Every statement of the store is one     *)
(* step; MatchEvent, which holds the read lock of the snapshot, is one      *)
(* step; LoadHandlers holds the write lock from its first statement to the  *)
(* assignment of the snapshot, and no MatchEvent runs in between.           *)

MaxOps == 2
MaxUnits == 2
MaxStarted == 2
MaxElapsed == 1
MaxWork == 3
MaxDirectives == 1
MaxThreshold == 1

EngineIds == {"a", "b"}

Placeholder(field) == <<"{event.", field, "}">>

\* the handlers that register_handler is called with
EngineData ==
  {HandlerData("a", FilterAll, StaticAction(<<SendMessage(Placeholder("from"))>>), p)
     : p \in {1, 5}}
  \cup {HandlerData("b", FilterFromBob, PythonAction, 5)
          @@ ("circuit_breaker_threshold" :> N(th)) : th \in 1..MaxThreshold}

\* the objects update_handler is called with
UpdateData == {("handler_id" :> S(<<"a">>)) @@ ("priority" :> N(1))}

EngineEvents == {MessageFrom("alice", "m1"), MessageFrom("bob", "m2")}

\* what the python tool call of a scripted action may produce
PythonOutcomes ==
  { [err |-> <<"Python tool call failed">>, result |-> <<>>],
    [err |-> <<>>, result |-> ("success" :> B(FALSE)) @@ ("error" :> S(<<"boom">>))],
    [err |-> <<>>,
     result |-> ("success" :> B(TRUE))
                @@ ("actions" :> L(<<SendMessage(Placeholder("chat"))>>))] }

\* the *OperationResult of a CallWhatsmeowMethod call: <<>> is nil, which
\* the call returns after it recovered from a panic of the method
CallResults == {<<>>, <<[Success |-> TRUE]>>, <<[Success |-> FALSE]>>}

\* result != nil && result.Success
Succeeded(result) == result # <<>> /\ result[1].Success

\* the results of the calls of a unit of the engine, by the index of the
\* directive; a nil result acts on the unit as a result without Success does
Replies == [1..MaxDirectives -> CallResults \ {<<>>}]

\* LoadHandlers with no other goroutine running (initializeSystem)
RECURSIVE LoadFrom(_, _, _)
LoadFrom(db, ids, full) ==
  IF ids = <<>> THEN full
  ELSE LET g == GetHandler(db, Head(ids))
       IN LoadFrom(db, Tail(ids), IF g.err THEN full ELSE Append(full, g.handler))

LoadHandlers(db, old) ==
  LET l == ListHandlers(db, TRUE)
  IN IF l.err THEN old ELSE LoadFrom(db, l.ids, <<>>)

\* the stores the process may start on: handlers registered by earlier runs
InitStores ==
  {EmptyStore}
  \cup {handleRegisterHandler(EmptyStore, d).store : d \in EngineData}
  \cup {handleRegisterHandler(handleRegisterHandler(EmptyStore, d).store, e).store
          : d \in EngineData, e \in EngineData}

Idle == [count |-> 0, op |-> <<>>]

Init ==
  /\ now = StartTime
  /\ store \in InitStores
  /\ executions = <<>>
  /\ handlers = LoadHandlers(store, <<>>)
  /\ rateLimits = NoLimiters
  /\ units = <<>>
  /\ sent = <<>>
  /\ mainloop = Idle
  /\ matched = <<>>
  /\ arg = <<>>
  /\ ret = <<>>

\* the units that took their first step
Started == Cardinality({i \in DOMAIN units : units[i].pc # "start"})

\* the exploration is bounded by the operations begun, the units started
\* and the seconds elapsed, and by their sum
Work == mainloop.count + Started + (now - StartTime)

\* the loop is between two operations, and may take another one
CanOperate == mainloop.op = <<>> /\ mainloop.count < MaxOps /\ Work < MaxWork

Finished == [count |-> mainloop.count + 1, op |-> <<>>]

Register ==
  /\ CanOperate
  /\ \E data \in EngineData : store' = handleRegisterHandler(store, data).store
  /\ mainloop' = Finished
  /\ UNCHANGED <<now, executions, handlers, rateLimits, units, sent, matched, arg, ret>>

\* handleUpdateHandler up to GetHandler and the merge
UpdateGet ==
  /\ CanOperate
  /\ \E data \in UpdateData :
       LET g == GetHandler(store, data["handler_id"].v[1])
       IN mainloop' = IF g.err THEN Finished
                      ELSE [mainloop EXCEPT !.op =
                              <<[name |-> "update", existing |-> MergeUpdates(g.handler, data)]>>]
  /\ UNCHANGED <<now, store, executions, handlers, rateLimits, units, sent, matched, arg, ret>>

\* handleUpdateHandler: SaveHandler(existing)
UpdateSave ==
  /\ mainloop.op # <<>>
  /\ mainloop.op[1].name = "update"
  /\ store' = SaveHandler(store, mainloop.op[1].existing)
  /\ mainloop' = Finished
  /\ UNCHANGED <<now, executions, handlers, rateLimits, units, sent, matched, arg, ret>>

Delete ==
  /\ CanOperate
  /\ \E id \in EngineIds : store' = DeleteHandler(store, id)
  /\ mainloop' = Finished
  /\ UNCHANGED <<now, executions, handlers, rateLimits, units, sent, matched, arg, ret>>

Enable ==
  /\ CanOperate
  /\ \E id \in EngineIds : store' = UpdateHandlerEnabled(store, id, TRUE)
  /\ mainloop' = Finished
  /\ UNCHANGED <<now, executions, handlers, rateLimits, units, sent, matched, arg, ret>>

\* a disable operation that also takes the handler out of the snapshot
DisableAndDrop ==
  /\ CanOperate
  /\ \E id \in EngineIds :
       /\ store' = UpdateHandlerEnabled(store, id, FALSE)
       /\ handlers' = SelectSeq(handlers, LAMBDA h : HandlerID(h) # id)
  /\ mainloop' = Finished
  /\ UNCHANGED <<now, executions, rateLimits, units, sent, matched, arg, ret>>

Disable ==
  /\ CanOperate
  /\ \E id \in EngineIds : store' = UpdateHandlerEnabled(store, id, FALSE)
  /\ mainloop' = Finished
  /\ UNCHANGED <<now, executions, handlers, rateLimits, units, sent, matched, arg, ret>>

\* LoadHandlers: the lock and ListHandlers(true)
ReloadList ==
  /\ CanOperate
  /\ LET l == ListHandlers(store, TRUE)
     IN mainloop' = IF l.err THEN Finished
                    ELSE [mainloop EXCEPT !.op =
                            <<[name |-> "reload", ids |-> l.ids, fullHandlers |-> <<>>]>>]
  /\ UNCHANGED <<now, store, executions, handlers, rateLimits, units, sent, matched, arg, ret>>

\* a load that gives up at the first handler it cannot fetch
ReloadGetOrAbort ==
  /\ mainloop.op # <<>>
  /\ mainloop.op[1].name = "reload"
  /\ mainloop.op[1].ids # <<>>
  /\ LET g == GetHandler(store, Head(mainloop.op[1].ids))
     IN mainloop' = IF g.err THEN [count |-> mainloop.count + 1, op |-> <<>>]
                    ELSE [mainloop EXCEPT !.op[1].ids = Tail(@),
                                          !.op[1].fullHandlers = Append(@, g.handler)]
  /\ UNCHANGED <<now, store, executions, handlers, rateLimits, units, sent, matched, arg, ret>>

\* LoadHandlers: GetHandler of the next listed handler
ReloadGet ==
  /\ mainloop.op # <<>>
  /\ mainloop.op[1].name = "reload"
  /\ mainloop.op[1].ids # <<>>
  /\ LET g == GetHandler(store, Head(mainloop.op[1].ids))
     IN mainloop' = [mainloop EXCEPT
                       !.op[1].ids = Tail(@),
                       !.op[1].fullHandlers = IF g.err THEN @ ELSE Append(@, g.handler)]
  /\ UNCHANGED <<now, store, executions, handlers, rateLimits, units, sent, matched, arg, ret>>

\* LoadHandlers: em.handlers = fullHandlers, and the lock is released
ReloadSwap ==
  /\ mainloop.op # <<>>
  /\ mainloop.op[1].name = "reload"
  /\ mainloop.op[1].ids = <<>>
  /\ handlers' = mainloop.op[1].fullHandlers
  /\ mainloop' = Finished
  /\ UNCHANGED <<now, store, executions, rateLimits, units, sent, matched, arg, ret>>

\* the lock of the snapshot held also by every unit that is in its action
LockHeldThroughActions ==
  \/ mainloop.op # <<>> /\ mainloop.op[1].name = "reload"
  \/ \E i \in DOMAIN units : units[i].pc = "run"

\* a snapshot without a lock
NeverLocked == FALSE

Loading == mainloop.op # <<>> /\ mainloop.op[1].name = "reload"

\* the process has not been ended by a fatal error of the runtime
Running == ~(mainloop.op # <<>> /\ mainloop.op[1].name = "fatal")

NewUnit(handler, event) ==
  [handler |-> handler, event |-> event, pc |-> "start", startTime |-> 0,
   success |-> FALSE, errorMsg |-> <<>>, replies |-> <<>>, logged |-> 0,
   saving |-> <<>>, finished |-> <<>>, recovered |-> 0, answer |-> <<>>]

\* ExecuteHandlersForEvent: MatchEvent and one goroutine for each match
Dispatch ==
  /\ Running
  /\ ~Loading
  /\ Len(units) < MaxUnits
  /\ \E event \in EngineEvents :
       LET r == MatchEvent(handlers, rateLimits, event, now)
       IN /\ matched' = <<[event |-> event, t |-> now, handlers |-> r.matches]>>
          /\ rateLimits' = r.rateLimits
          /\ units' = units \o [i \in DOMAIN r.matches |-> NewUnit(r.matches[i], event)]
  /\ UNCHANGED <<now, store, executions, handlers, sent, mainloop, arg, ret>>

\* executeHandler: startTime and RecordExecution
UnitStart(i) ==
  /\ Running
  /\ units[i].pc = "start"
  /\ Started < MaxStarted
  /\ Work < MaxWork
  /\ rateLimits' = RecordExecution(rateLimits, HandlerID(units[i].handler),
                                   units[i].event, now)
  /\ units' = [units EXCEPT ![i].pc = "run", ![i].startTime = now]
  /\ UNCHANGED <<now, store, executions, handlers, sent, mainloop, matched, arg, ret>>

\* the unit reaches callMCPTool: its action is scripted and has code
InCallMCPTool(u) ==
  /\ u.pc = "run"
  /\ IsMap(u.handler, "action")
  /\ GoString(u.handler["action"].v, "type") = <<"python">>
  /\ GoString(u.handler["action"].v, "code") # <<>>

\* directive number k of the list makes a call of CallWhatsmeowMethod
MakesCall(actions, k, eventData) ==
  /\ actions[k].k = "map"
  /\ executeAction(substituteVariables(actions[k].v, eventData), TRUE).calls # <<>>

\* the directives the unit of a handler executes, given the decoded return
\* value of its action
DirectivesOf(handler, outcome) ==
  LET action == handler["action"].v
      list(m) == IF "actions" \in DOMAIN m /\ m["actions"].k = "list"
                 THEN m["actions"].v ELSE <<>>
  IN IF ~IsMap(handler, "action") THEN <<>>
     ELSE IF GoString(action, "type") = <<"actions">> THEN list(action)
     ELSE IF outcome.err = <<>> THEN list(outcome.result) ELSE <<>>

\* executeHandler: the action, its directives and the execution record;
\* outcomes is what the python tool call may produce and results what the
\* calls of the directives may return
UnitRunWith(i, outcomes, results) ==
  /\ Running
  /\ units[i].pc = "run"
  /\ \E outcome \in outcomes, result \in results :
       LET replies == [k \in DOMAIN result |-> Succeeded(result[k])]
           r == RunAction(units[i].handler, units[i].event, units[i].startTime, now,
                          <<>>, outcome, replies, replies)
           directives == DirectivesOf(units[i].handler, outcome)
       IN /\ sent' = sent \o r.calls
          /\ executions' = LogHandlerExecution(executions, r.execution)
          /\ units' = [units EXCEPT
                         ![i].pc = IF r.closing THEN "breaker" ELSE "done",
                         ![i].success = r.success,
                         ![i].errorMsg = r.errorMsg,
                         ![i].replies = IF Len(r.calls) = 0 THEN <<>> ELSE replies,
                         ![i].logged = Len(executions) + 1,
                         ![i].answer = IF InCallMCPTool(units[i]) THEN <<outcome>>
                                       ELSE <<>>,
                         ![i].recovered =
                           IF Len(r.calls) = 0 THEN 0
                           ELSE Cardinality({k \in DOMAIN directives :
                                               /\ MakesCall(directives, k, units[i].event)
                                               /\ result[k] = <<>>})]
  /\ UNCHANGED <<now, store, handlers, rateLimits, mainloop, matched, arg, ret>>

UnitRun(i) == UnitRunWith(i, PythonOutcomes, Replies)

\* UpdateCircuitBreaker: GetHandler and the decision
UnitBreakerGet(i) ==
  /\ Running
  /\ units[i].pc = "breaker"
  /\ LET g == GetHandler(store, HandlerID(units[i].handler))
         saving == IF g.err THEN <<>> ELSE BreakerUpdate(g.handler, units[i].success)
     IN units' = [units EXCEPT ![i].pc = IF saving = <<>> THEN "stats" ELSE "save",
                               ![i].saving = saving]
  /\ UNCHANGED <<now, store, executions, handlers, rateLimits, sent, mainloop, matched,
                 arg, ret>>

\* UpdateCircuitBreaker: SaveHandler(handler)
UnitBreakerSave(i) ==
  /\ Running
  /\ units[i].pc = "save"
  /\ store' = SaveHandler(store, units[i].saving[1])
  /\ units' = [units EXCEPT ![i].pc = "stats", ![i].saving = <<>>]
  /\ UNCHANGED <<now, executions, handlers, rateLimits, sent, mainloop, matched, arg, ret>>

\* UpdateHandlerStats, the last statement of executeHandler
UnitStats(i) ==
  /\ Running
  /\ units[i].pc = "stats"
  /\ store' = UpdateHandlerStats(store, HandlerID(units[i].handler), units[i].success,
                                 units[i].errorMsg, now)
  /\ units' = [units EXCEPT ![i].pc = "done", ![i].finished = <<now>>]
  /\ UNCHANGED <<now, executions, handlers, rateLimits, sent, mainloop, matched, arg, ret>>

\* callMCPTool: two units write conn.ResponseChannel, a map no lock guards,
\* at the same time; the runtime may end the process with the fatal error
\* "concurrent map writes"
CallMCPToolFatal ==
  /\ Running
  /\ \E i, j \in DOMAIN units : i # j /\ InCallMCPTool(units[i]) /\ InCallMCPTool(units[j])
  /\ mainloop' = [mainloop EXCEPT !.op = <<[name |-> "fatal"]>>]
  /\ UNCHANGED <<now, store, executions, handlers, rateLimits, units, sent, matched, arg, ret>>

Tick ==
  /\ now < StartTime + MaxElapsed
  /\ Work < MaxWork
  /\ now' = now + 1
  /\ UNCHANGED <<store, executions, handlers, rateLimits, units, sent, mainloop, matched,
                 arg, ret>>

Next ==
  \/ Register \/ UpdateGet \/ UpdateSave \/ Delete \/ Enable \/ Disable
  \/ ReloadList \/ ReloadGet \/ ReloadSwap
  \/ Dispatch
  \/ \E i \in DOMAIN units : UnitStart(i)
  \/ \E i \in DOMAIN units : UnitRun(i)
  \/ \E i \in DOMAIN units : UnitBreakerGet(i)
  \/ \E i \in DOMAIN units : UnitBreakerSave(i)
  \/ \E i \in DOMAIN units : UnitStats(i)
  \/ CallMCPToolFatal
  \/ Tick

Spec == Init /\ [][Next]_vars

-----------------------------------------------------------------------------
(* Claims on the engine *)

Row(id) == store[id][1]

\* the units of handler id that took their first step
StartedOf(id) ==
  {i \in DOMAIN units : HandlerID(units[i].handler) = id /\ units[i].pc # "start"}

Latest(times) == CHOOSE t \in times : \A u \in times : u <= t

\* handler id has its breaker enabled, no operation touched the store since
\* the start (total_errors started at 0, state closed), and the executions
\* of the handler so far are T completed failures, T its threshold
ThresholdReached(id) ==
  /\ mainloop = Idle
  /\ store[id] # <<>>
  /\ Row(id).circuit_breaker_enabled = 1
  /\ \A i \in StartedOf(id) : units[i].pc = "done" /\ ~units[i].success
  /\ Cardinality(StartedOf(id)) = Row(id).circuit_breaker_threshold

LastFailure(id) == Latest({units[i].finished[1] : i \in StartedOf(id)})

\* C4 as stated: once T failed executions of a breaker-enabled handler with
\* threshold T have completed, the stored record has circuit_breaker_state
\* open and last_error_time the time of the last failure.
C4_AsStated ==
  \A id \in EngineIds :
    ThresholdReached(id) =>
      /\ Row(id).circuit_breaker_state = <<(<<"open">>)>>
      /\ Row(id).last_error_time = <<LastFailure(id)>>

\* C5 as stated: a MatchEvent call made after the failures that reach the
\* threshold have completed, and before reset_seconds have elapsed since
\* the last of them, does not return the handler.
C5_AsStated ==
  [][matched' # matched =>
       \A id \in EngineIds :
         (ThresholdReached(id)
            /\ now - LastFailure(id) < Row(id).circuit_breaker_reset_seconds)
           => \A i \in DOMAIN matched'[1].handlers : HandlerID(matched'[1].handlers[i]) # id]_vars

C8_AsStated ==
  matched # <<>> =>
    \A i, j \in DOMAIN matched[1].handlers :
      i < j =>
        \/ Priority(matched[1].handlers[i]) > Priority(matched[1].handlers[j])
        \/ /\ Priority(matched[1].handlers[i]) = Priority(matched[1].handlers[j])
           /\ IdRank(HandlerID(matched[1].handlers[i]))
                < IdRank(HandlerID(matched[1].handlers[j]))

\* the action of the unit is static: one send_message directive
SingleSendMessage(u) ==
  /\ GoString(u.handler["action"].v, "type") = <<"actions">>
  /\ Len(u.handler["action"].v["actions"].v) = 1
  /\ GoString(u.handler["action"].v["actions"].v[1].v, "type") = <<"send_message">>

\* C9 as stated: the record written for a unit whose static action is one
\* send_message that succeeded has success = true and actions_executed = 1.
C9_AsStated ==
  \A i \in DOMAIN units :
    (units[i].logged > 0 /\ SingleSendMessage(units[i]) /\ units[i].replies = <<TRUE>>)
      => /\ executions[units[i].logged].success = 1
         /\ executions[units[i].logged].actions_executed = <<1>>

-----------------------------------------------------------------------------
(* Function-level specification of substituteVariables: one call on a       *)
(* directive whose values nest maps and lists two levels deep.              *)

SubstStrings ==
  { Placeholder("from"), Placeholder("is_group"), Placeholder("nope"),
    <<"hello ">> \o Placeholder("from"), Placeholder("from") \o <<"hello ">>,
    Placeholder("from") \o <<"}">>, <<"{event.", "}">>, <<"{event.", "from">>,
    <<"{event.">>, <<"from">>, <<>> }

SubstAtoms == {S(s) : s \in SubstStrings} \cup {N(1), B(TRUE)}

SubstNested ==
  {M("text" :> x) : x \in SubstAtoms}
  \cup {L(<<x, y>>) : x \in SubstAtoms, y \in {S(Placeholder("chat")), S(<<"hello ">>)}}
  \cup {M("inner" :> L(<<x>>)) : x \in SubstAtoms}
  \cup {L(<<M("inner" :> x)>>) : x \in SubstAtoms}

SubstDirectives ==
  {("type" :> S(<<"send_message">>)) @@ ("to" :> x) @@ ("message" :> y)
     : x \in SubstAtoms, y \in SubstNested}

SubstEvents ==
  { MessageFrom("alice", "m1"),
    prepareEventData(MessageFrom("bob", "m2") @@ ("media_type" :> S(<<"image">>)),
                     <<(<<"m2_image.jpg">>)>>),
    [key \in {"event_type", "message_id"} |-> MessageFrom("bob", "m2")[key]] }

InitSubst ==
  /\ EngineOff
  /\ arg \in [directive : SubstDirectives, eventData : SubstEvents]
  /\ ret = <<>>

ApplySubstituteVariables ==
  /\ ret = <<>>
  /\ "directive" \in DOMAIN arg
  /\ ret' = <<substituteVariables(arg.directive, arg.eventData)>>
  /\ UNCHANGED <<arg, engineVars>>

SpecSubst == InitSubst /\ [][ApplySubstituteVariables]_vars

\* the value the claim expects: a string that is, whole, "{event.<field>}"
\* with <field> a key of the context becomes the value of the field; maps
\* and lists are rebuilt from their members; anything else is unchanged
RECURSIVE Substituted(_, _)
Substituted(value, ctx) ==
  IF value.k = "string" /\ \E f \in DOMAIN ctx : value.v = <<"{event.", f, "}">>
  THEN ctx[CHOOSE f \in DOMAIN ctx : value.v = <<"{event.", f, "}">>]
  ELSE IF value.k = "map" THEN M([key \in DOMAIN value.v |-> Substituted(value.v[key], ctx)])
  ELSE IF value.k = "list" THEN L([i \in DOMAIN value.v |-> Substituted(value.v[i], ctx)])
  ELSE value

\* C10: substitution replaces a string value exactly when the whole value is
\* "{event.<field>}" and <field> is a key of the event context, at any
\* depth of maps and lists, and returns every other value unchanged.
C10_SubstitutesExactlyWholePlaceholders ==
  (ret # <<>> /\ "directive" \in DOMAIN arg) =>
    /\ DOMAIN ret[1] = DOMAIN arg.directive
    /\ \A key \in DOMAIN arg.directive :
         ret[1][key] = Substituted(arg.directive[key], arg.eventData)

\* a directive with a placeholder replaced two levels deep, next to a
\* partial interpolation that is left as it was
C10_Witness ==
  /\ ret # <<>>
  /\ "directive" \in DOMAIN arg
  /\ arg.directive["to"] = S(<<"hello ">> \o Placeholder("from"))
  /\ ret[1]["to"] = arg.directive["to"]
  /\ arg.directive["message"] = M("inner" :> L(<<S(Placeholder("from"))>>))
  /\ ret[1]["message"] = M("inner" :> L(<<S(<<"alice">>)>>))

-----------------------------------------------------------------------------
(* The execution units of one event: the process has started on a store of  *)
(* one or two handlers and ExecuteHandlersForEvent has dispatched the units *)
(* of one inbound event.  The handlers cover every kind of action           *)
(* definition the store can hand to a unit.                                 *)

MaxUnitDirectives == 2

\* a delay directive
Delay(seconds) == M(("type" :> S(<<"delay">>)) @@ ("seconds" :> N(seconds)))

\* the action definitions register_handler is called with
UnitActions ==
  { StaticAction(<<SendMessage(Placeholder("from"))>>),
    StaticAction(<<SendMessage(Placeholder("chat")), SendMessage(Placeholder("from"))>>),
    StaticAction(<<Delay(0), SendMessage(Placeholder("from"))>>),
    "type" :> S(<<"actions">>),
    PythonAction,
    "type" :> S(<<"python">>),
    "type" :> S(<<"shell">>) }

\* update_handler with an action that is not a JSON object
InvalidActionData == ("handler_id" :> S(<<"a">>)) @@ ("action" :> S(<<"oops">>))

\* handleUpdateHandler as one call: [ok, store]
handleUpdateHandler(db, data) ==
  LET g == GetHandler(db, data["handler_id"].v[1])
  IN IF g.err THEN [ok |-> FALSE, store |-> db]
     ELSE [ok |-> TRUE, store |-> SaveHandler(db, MergeUpdates(g.handler, data))]

\* the stores of handler a alone, its breaker enabled
UnitStoresOfA ==
  LET registered == {handleRegisterHandler(EmptyStore,
                       HandlerData("a", FilterAll, action, 5)).store
                       : action \in UnitActions}
  IN registered \cup {handleUpdateHandler(db, InvalidActionData).store : db \in registered}

\* the stores the units run on: handler a, alone or with a scripted handler
\* b, or alone with its breaker disabled
UnitStores ==
  UnitStoresOfA
  \cup {handleRegisterHandler(db, HandlerData("b", FilterAll, PythonAction, 1)).store
          : db \in UnitStoresOfA}
  \cup {handleRegisterHandler(EmptyStore,
           HandlerData("a", FilterAll, action, 5)
           @@ ("circuit_breaker_enabled" :> B(FALSE))).store : action \in UnitActions}

\* what the python tool call of a scripted action may produce
UnitOutcomes ==
  PythonOutcomes
  \cup { [err |-> <<>>, result |-> "success" :> B(TRUE)],
         [err |-> <<>>, result |-> "actions" :> L(<<SendMessage(Placeholder("chat"))>>)],
         [err |-> <<>>,
          result |-> ("success" :> B(TRUE))
                     @@ ("actions" :> L(<<SendMessage(Placeholder("chat")), Delay(0)>>))] }

UnitResults == [1..MaxUnitDirectives -> CallResults]

InitUnit ==
  /\ now = StartTime
  /\ store \in UnitStores
  /\ executions = <<>>
  /\ handlers = LoadHandlers(store, <<>>)
  /\ \E event \in EngineEvents :
       LET r == MatchEvent(handlers, NoLimiters, event, now)
       IN /\ matched = <<[event |-> event, t |-> now, handlers |-> r.matches]>>
          /\ rateLimits = r.rateLimits
          /\ units = [i \in DOMAIN r.matches |-> NewUnit(r.matches[i], event)]
  /\ sent = <<>>
  /\ mainloop = Idle
  /\ arg = <<>>
  /\ ret = <<>>

UnitRunWide(i) == UnitRunWith(i, UnitOutcomes, UnitResults)

NextUnit ==
  \/ Dispatch
  \/ \E i \in DOMAIN units : UnitStart(i)
  \/ \E i \in DOMAIN units : UnitRunWide(i)
  \/ \E i \in DOMAIN units : UnitBreakerGet(i)
  \/ \E i \in DOMAIN units : UnitBreakerSave(i)
  \/ \E i \in DOMAIN units : UnitStats(i)
  \/ CallMCPToolFatal

SpecUnit == InitUnit /\ [][NextUnit]_vars

\* the units of handler id and event eventID that are past their action
Recorded(id, eventID) ==
  {i \in DOMAIN units : /\ HandlerID(units[i].handler) = id
                        /\ GoString(units[i].event, "message_id") = <<eventID>>
                        /\ units[i].pc \notin {"start", "run"}}

\* the execution records of handler id and event eventID
RecordsOf(id, eventID) ==
  {k \in DOMAIN executions : /\ executions[k].handler_id = <<id>>
                             /\ executions[k].event_id = <<eventID>>}

EventIds == {"m1", "m2"}

\* C11: every unit appends exactly one execution record.  At any moment the
\* records of a handler and an event are as many as the units of that
\* handler and event that are past their action, each such unit has one
\* record of its own, and a unit that has not yet run its action has none.
C11_OneRecordPerUnit ==
  /\ \A id \in HandlerIds, eventID \in EventIds :
       Cardinality(RecordsOf(id, eventID)) = Cardinality(Recorded(id, eventID))
  /\ \A i \in DOMAIN units :
       IF units[i].pc \in {"start", "run"} THEN units[i].logged = 0
       ELSE /\ units[i].logged \in DOMAIN executions
            /\ executions[units[i].logged].handler_id = <<HandlerID(units[i].handler)>>
            /\ executions[units[i].logged].success = (IF units[i].success THEN 1 ELSE 0)
  /\ \A i, j \in DOMAIN units :
       (i # j /\ units[i].logged > 0) => units[i].logged # units[j].logged

\* two units of one event have completed, one of a handler whose action
\* definition is not an object (recorded as a failure) and one that succeeded
C11_Witness ==
  /\ Len(units) = 2
  /\ \A i \in DOMAIN units : units[i].pc = "done"
  /\ Len(executions) = 2
  /\ \E i \in DOMAIN units :
       /\ units[i].handler["action"].v = <<>>
       /\ executions[units[i].logged].success = 0
  /\ \E i \in DOMAIN units : executions[units[i].logged].success = 1

\* the static action of the unit holds a delay directive
HasDelay(u) ==
  /\ GoString(u.handler["action"].v, "type") = <<"actions">>
  /\ "actions" \in DOMAIN u.handler["action"].v
  /\ \E k \in DOMAIN u.handler["action"].v["actions"].v :
       GoString(u.handler["action"].v["actions"].v[k].v, "type") = <<"delay">>

\* unit i is inside its action, where a delay directive sleeps and the tool
\* call of a scripted action waits for its answer
Blocked(i) == units[i].pc = "run" /\ (InCallMCPTool(units[i]) \/ HasDelay(units[i]))

\* a step of unit j
StepOf(j) ==
  UnitStart(j) \/ UnitRunWide(j) \/ UnitBreakerGet(j) \/ UnitBreakerSave(j) \/ UnitStats(j)

\* C12: dispatch does not wait for its units, and a unit blocked in a delay
\* directive or in a scripted call holds up neither the dispatch of the next
\* event nor any other unit.  While a unit is inside such an action and the
\* process runs, ExecuteHandlersForEvent can be called and return (unless
\* LoadHandlers holds the lock of the snapshot, or the bound on the units is
\* reached), and every other unfinished unit can take its next step (a unit
\* that has not started, within the bounds on the started units).
C12_BlockedUnitBlocksNobody ==
  \A i \in DOMAIN units :
    (Running /\ Blocked(i)) =>
      /\ (Len(units) < MaxUnits /\ (mainloop.op = <<>> \/ mainloop.op[1].name # "reload"))
           => ENABLED Dispatch
      /\ \A j \in DOMAIN units \ {i} :
           (/\ units[j].pc # "done"
            /\ units[j].pc = "start" => (Started < MaxStarted /\ Work < MaxWork))
             => ENABLED StepOf(j)

\* the unit of the first event is still inside a delay directive or a
\* scripted call while the unit of an event dispatched after it has completed
C12_Witness ==
  /\ Len(units) = 2
  /\ units[1].event # units[2].event
  /\ Running
  /\ Blocked(1)
  /\ units[2].pc = "done"

\* the units of the other handlers that matched the event of unit j
Siblings(j) ==
  {i \in DOMAIN units : /\ units[i].event = units[j].event
                        /\ HandlerID(units[i].handler) # HandlerID(units[j].handler)}

\* unit j is the only unit of its handler
OnlyUnitOfHandler(j) ==
  \A k \in DOMAIN units \ {j} : HandlerID(units[k].handler) # HandlerID(units[j].handler)

\* the stats and the breaker state of a row
StatsOf(row) ==
  [execution_count |-> row[1].execution_count, last_executed |-> row[1].last_executed,
   total_errors |-> row[1].total_errors, last_error |-> row[1].last_error,
   last_error_time |-> row[1].last_error_time,
   circuit_breaker_state |-> row[1].circuit_breaker_state]

\* the row of its handler after the closing steps of unit j, had no other
\* unit run: UpdateCircuitBreaker and UpdateHandlerStats with the outcome of
\* j on the row the snapshot record of j was read from
RowAlone(j) ==
  LET u == units[j]
      id == HandlerID(u.handler)
      db0 == SaveHandler(EmptyStore, u.handler)
      saving == BreakerUpdate(GetHandler(db0, id).handler, u.success)
      db1 == IF saving = <<>> THEN db0 ELSE SaveHandler(db0, saving[1])
  IN UpdateHandlerStats(db1, id, u.success, u.errorMsg, u.finished[1])[id]

\* the execution record of unit j is the record of its own outcome
OwnRecord(j) ==
  LET u == units[j]
      e == executions[u.logged]
  IN /\ e.handler_id = <<HandlerID(u.handler)>>
     /\ e.event_id = GoString(u.event, "message_id")
     /\ e.started_at = u.startTime
     /\ e.success = (IF u.success THEN 1 ELSE 0)
     /\ e.error = (IF u.success THEN <<>> ELSE <<u.errorMsg>>)

\* unit i has failed: its action returned an error or a result without
\* success
Failed(i) == units[i].pc \notin {"start", "run"} /\ ~units[i].success

\* C13: the failure of one unit of an event is isolated from the other units
\* of that event.  While the process runs, a unit whose sibling has failed
\* can take its next step until it is done, and when it is done its
\* execution record is the record of its own outcome and the stored row of
\* its handler (stats and breaker state) is the row its own closing steps
\* write when no other unit runs (j the only unit of its handler).
C13_FailureIsIsolated ==
  \A j \in DOMAIN units :
    (Running /\ OnlyUnitOfHandler(j) /\ \E i \in Siblings(j) : Failed(i)) =>
      /\ units[j].pc # "done" => ENABLED StepOf(j)
      /\ units[j].pc = "done"
           => /\ OwnRecord(j)
              /\ StatsOf(store[HandlerID(units[j].handler)]) = StatsOf(RowAlone(j))

\* both units of one event are done, the first has failed and the second
\* has succeeded
C13_Witness ==
  /\ Len(units) = 2
  /\ units[1].event = units[2].event
  /\ HandlerID(units[1].handler) # HandlerID(units[2].handler)
  /\ units[1].pc = "done" /\ units[2].pc = "done"
  /\ Failed(1)
  /\ units[2].success
  /\ Row(HandlerID(units[2].handler)).execution_count = 1

Leaves(i, from) == units[i].pc = from /\ units'[i].pc # from

\* C15: every unit performs the three closing steps with its outcome, on
\* every path.  A unit leaves its action only by appending its execution
\* record, with its outcome, and going on to UpdateCircuitBreaker; it leaves
\* UpdateCircuitBreaker, decided on its outcome, only for UpdateHandlerStats;
\* and it ends only by UpdateHandlerStats with its outcome.
C15_AllClosingSteps ==
  [][\A i \in DOMAIN units :
       LET id == HandlerID(units[i].handler)
           g == GetHandler(store, id)
       IN /\ Leaves(i, "start") => units'[i].pc = "run"
          /\ Leaves(i, "run") =>
               /\ units'[i].pc = "breaker"
               /\ Len(executions') = Len(executions) + 1
               /\ executions'[Len(executions')].handler_id = <<id>>
               /\ executions'[Len(executions')].success = (IF units'[i].success THEN 1 ELSE 0)
          /\ Leaves(i, "breaker") =>
               /\ units'[i].saving = (IF g.err THEN <<>>
                                      ELSE BreakerUpdate(g.handler, units[i].success))
               /\ units'[i].pc = (IF units'[i].saving = <<>> THEN "stats" ELSE "save")
          /\ Leaves(i, "save") =>
               units'[i].pc = "stats" /\ store' = SaveHandler(store, units[i].saving[1])
          /\ Leaves(i, "stats") =>
               /\ units'[i].pc = "done"
               /\ store' = UpdateHandlerStats(store, id, units[i].success, units[i].errorMsg,
                                              now)
          /\ units[i].pc = "done" => units'[i] = units[i]]_vars

\* the unit of a handler whose stored action is not a JSON object is done:
\* its record is a failure and its row counts one execution and one error
C15_Witness ==
  \E i \in DOMAIN units :
    /\ units[i].pc = "done"
    /\ store["a"] # <<>>
    /\ HandlerID(units[i].handler) = "a"
    /\ Row("a").action = S(<<"oops">>)
    /\ executions[units[i].logged].success = 0
    /\ Row("a").execution_count = 1
    /\ Row("a").total_errors = 1

\* the action source of unit u reported success: a static action handed
\* over its list of directives, the script of a scripted action answered
\* with success = true
Reported(u) ==
  LET action == u.handler["action"].v
      actionType == GoString(action, "type")
  IN CASE actionType = <<"actions">> ->
            "actions" \in DOMAIN action /\ action["actions"].k = "list"
       [] actionType = <<"python">> ->
            /\ u.answer # <<>>
            /\ u.answer[1].err = <<>>
            /\ IsBool(u.answer[1].result, "success")
            /\ GoBool(u.answer[1].result, "success")
       [] OTHER -> FALSE

\* C16: a unit is recorded as successful exactly when its action source
\* reported success, whatever the calls of its directives returned: the
\* success flag of its record, the outcome UpdateCircuitBreaker decides on
\* and the error count UpdateHandlerStats writes follow the report alone.
C16_SuccessIsTheReport ==
  [][\A i \in DOMAIN units :
       LET id == HandlerID(units[i].handler)
           g == GetHandler(store, id)
       IN /\ Leaves(i, "run") =>
               /\ units'[i].success = Reported(units'[i])
               /\ executions'[Len(executions')].success
                    = (IF Reported(units'[i]) THEN 1 ELSE 0)
          /\ Leaves(i, "breaker") =>
               units'[i].saving = (IF g.err THEN <<>>
                                   ELSE BreakerUpdate(g.handler, Reported(units[i])))
          /\ (Leaves(i, "stats") /\ store[id] # <<>>) =>
               store'[id][1].total_errors
                 = store[id][1].total_errors + (IF Reported(units[i]) THEN 0 ELSE 1)]_vars

\* a unit is done whose only call failed or panicked: its record is a
\* success with no action executed, and its row counts no error
C16_Witness ==
  \E i \in DOMAIN units :
    /\ units[i].pc = "done"
    /\ Len(units) = 1
    /\ units[i].replies # <<>>
    /\ \A k \in DOMAIN units[i].replies : ~units[i].replies[k]
    /\ executions[units[i].logged].success = 1
    /\ executions[units[i].logged].actions_executed = <<0>>
    /\ Row(HandlerID(units[i].handler)).total_errors = 0
    /\ Row(HandlerID(units[i].handler)).execution_count = 1

-----------------------------------------------------------------------------
(* Cooldown: the process has started on a store of one handler that has a   *)
(* cooldown; inbound events are matched and dispatched while the units of   *)
(* earlier events run and the clock advances.                               *)

MaxCooldown == 2

CooldownStores ==
  {handleRegisterHandler(EmptyStore,
     HandlerData("a", FilterAll, StaticAction(<<SendMessage(Placeholder("from"))>>), 5)
     @@ ("cooldown_seconds" :> N(c))).store : c \in 1..MaxCooldown}

InitCooldown ==
  /\ now = StartTime
  /\ store \in CooldownStores
  /\ executions = <<>>
  /\ handlers = LoadHandlers(store, <<>>)
  /\ rateLimits = NoLimiters
  /\ units = <<>>
  /\ sent = <<>>
  /\ mainloop = Idle
  /\ matched = <<>>
  /\ arg = <<>>
  /\ ret = <<>>

NextCooldown ==
  \/ Dispatch
  \/ \E i \in DOMAIN units : UnitStart(i)
  \/ \E i \in DOMAIN units : UnitRun(i)
  \/ \E i \in DOMAIN units : UnitBreakerGet(i)
  \/ \E i \in DOMAIN units : UnitBreakerSave(i)
  \/ \E i \in DOMAIN units : UnitStats(i)
  \/ Tick

SpecCooldown == InitCooldown /\ [][NextCooldown]_vars

\* the cooldown of the handler of unit u, 0 when it has none
CooldownOf(u) ==
  IF IsInt64(u.handler, "cooldown_seconds") THEN u.handler["cooldown_seconds"].v[1] ELSE 0

\* C17 as stated: two executions of a handler with cooldown c (the
\* RecordExecution calls of two of its units) are at least c seconds apart.
C17_AsStated ==
  \A i, j \in DOMAIN units :
    (/\ i < j
     /\ HandlerID(units[i].handler) = HandlerID(units[j].handler)
     /\ units[i].pc # "start" /\ units[j].pc # "start"
     /\ CooldownOf(units[j]) > 0)
      => \/ units[j].startTime - units[i].startTime >= CooldownOf(units[j])
         \/ units[i].startTime - units[j].startTime >= CooldownOf(units[j])

-----------------------------------------------------------------------------
(* Function-level specification of checkRateLimits and RecordExecution on   *)
(* handlers that carry any combination of the three rate limits.            *)

\* a limit of the handler record: absent, or an int64 as GetHandler stores it
LimitChoices(key) == {<<>>} \cup {key :> I64(n) : n \in 1..MaxPerMinute}

CheckHandlers ==
  {("handler_id" :> S(<<"a">>)) @@ perMinute @@ perHour @@ perSender :
     perMinute \in LimitChoices("max_executions_per_minute"),
     perHour \in LimitChoices("max_executions_per_hour"),
     perSender \in LimitChoices("max_executions_per_sender_per_hour")}

InitCheck ==
  /\ now = StartTime
  /\ store = <<>>
  /\ executions = <<>>
  /\ handlers = <<>>
  /\ rateLimits = NoLimiters
  /\ units = <<>>
  /\ sent = <<>>
  /\ mainloop = <<>>
  /\ matched = <<>>
  /\ arg \in [handler : CheckHandlers, records : {<<>>}, ticks : {0}]
  /\ ret = <<>>

SpecCheck == InitCheck /\ [][NextLimiter]_vars

\* the entries of a count map that hold a count
Counted(m) == [key \in {x \in DOMAIN m : m[x] # 0} |-> m[key]]

\* every minute, hour and sender-hour count and the last-execution time of
\* every handler; a handler without a limiter has no count and no time
CountsOf(rl) ==
  [id \in HandlerIds |->
     LET limiter == IF rl[id] = <<>> THEN NewRateLimiter ELSE rl[id][1]
     IN [perMinute |-> Counted(limiter.perMinuteCounts),
         perHour |-> Counted(limiter.perHourCounts),
         perSender |-> [sender \in {x \in DOMAIN limiter.perSenderCounts :
                                      DOMAIN Counted(limiter.perSenderCounts[x]) # {}}
                          |-> Counted(limiter.perSenderCounts[sender])],
         lastExecution |-> limiter.lastExecution]]

\* C18: checkRateLimits changes no minute, hour or sender-hour count and no
\* last-execution time; a step that changes one of them is a call of
\* RecordExecution.
C18_CheckIsPureRead ==
  [][CountsOf(rateLimits') # CountsOf(rateLimits)
       => Len(arg'.records) = Len(arg.records) + 1]_vars

\* a check under a sender limit has created the limiter of the handler and
\* the empty count map of the sender, after an execution was recorded for
\* another sender
C18_Witness ==
  /\ ret # <<>>
  /\ "records" \in DOMAIN arg
  /\ Len(arg.records) = 1
  /\ IsInt64(arg.handler, "max_executions_per_sender_per_hour")
  /\ rateLimits["a"] # <<>>
  /\ \E sender \in DOMAIN rateLimits["a"][1].perSenderCounts :
       rateLimits["a"][1].perSenderCounts[sender] = <<>>
  /\ \E sender \in DOMAIN rateLimits["a"][1].perSenderCounts :
       rateLimits["a"][1].perSenderCounts[sender] # <<>>

-----------------------------------------------------------------------------
(* LoadHandlers against MatchEvent calls that run handler by handler: the   *)
(* calls hold the read lock of handlersMutex from their first step to their *)
(* last, the load holds the write lock from ListHandlers to the assignment. *)

MaxCalls == 2

InitSnapshot ==
  /\ now = StartTime
  /\ store \in InitStores
  /\ executions = <<>>
  /\ handlers = LoadHandlers(store, <<>>)
  /\ rateLimits = NoLimiters
  /\ units = <<>>
  /\ sent = <<>>
  /\ mainloop = Idle
  /\ matched = <<>>
  /\ arg = <<>>
  /\ ret = <<>>

\* a MatchEvent call holds the read lock
Reading == \E i \in DOMAIN matched : matched[i].pc = "loop"

\* LoadHandlers: Lock waits for the calls that hold the read lock
LockedReloadList ==
  /\ ~Reading
  /\ ReloadList

\* MatchEvent: RLock, and the range expression em.handlers is evaluated
MatchBegin ==
  /\ ~Loading
  /\ Len(matched) < MaxCalls
  /\ \E event \in EngineEvents :
       matched' = Append(matched, [event |-> event, snapshot |-> handlers, k |-> 1,
                                   evaluated |-> <<>>, matches |-> <<>>, pc |-> "loop"])
  /\ UNCHANGED <<now, store, executions, handlers, rateLimits, units, sent, mainloop, arg, ret>>

\* MatchEvent: one iteration of the loop over the handlers
MatchStep(i) ==
  /\ matched[i].pc = "loop"
  /\ matched[i].k <= Len(matched[i].snapshot)
  /\ LET handler == matched[i].snapshot[matched[i].k]
         r == MatchFrom(<<handler>>, 1, rateLimits, matched[i].event, now,
                        matched[i].matches)
     IN /\ matched' = [matched EXCEPT ![i].k = @ + 1,
                                      ![i].evaluated = Append(@, handler),
                                      ![i].matches = r.matches]
        /\ rateLimits' = r.rateLimits
  /\ UNCHANGED <<now, store, executions, handlers, units, sent, mainloop, arg, ret>>

\* MatchEvent: the matches are sorted, and RUnlock
MatchEnd(i) ==
  /\ matched[i].pc = "loop"
  /\ matched[i].k > Len(matched[i].snapshot)
  /\ matched' = [matched EXCEPT ![i].pc = "done",
                                ![i].matches = sortHandlersByPriority(@)]
  /\ UNCHANGED <<now, store, executions, handlers, rateLimits, units, sent, mainloop, arg, ret>>

NextSnapshot ==
  \/ Register
  \/ Delete
  \/ Enable
  \/ Disable
  \/ LockedReloadList
  \/ ReloadGet
  \/ ReloadSwap
  \/ MatchBegin
  \/ \E i \in DOMAIN matched : MatchStep(i)
  \/ \E i \in DOMAIN matched : MatchEnd(i)

SpecSnapshot == InitSnapshot /\ [][NextSnapshot]_vars

\* C19: under every interleaving of LoadHandlers with MatchEvent calls, the
\* snapshot a call evaluates is the one in place during the whole call, so
\* the handlers a finished call evaluated are one complete snapshot, the one
\* from before the load or the one from after it.
C19_NoMixedSnapshot ==
  \A i \in DOMAIN matched :
    /\ matched[i].pc = "loop" => matched[i].snapshot = handlers
    /\ matched[i].pc = "loop" =>
         matched[i].evaluated = SubSeq(handlers, 1, Len(matched[i].evaluated))
    /\ matched[i].pc = "done" => matched[i].evaluated = matched[i].snapshot

\* a call evaluated the snapshot from before a load, another call the
\* different snapshot from after it
C19_Witness ==
  /\ mainloop.count > 0
  /\ \E i, j \in DOMAIN matched :
       /\ i < j
       /\ matched[i].pc = "done"
       /\ matched[j].pc = "done"
       /\ Len(matched[i].evaluated) = 2
       /\ matched[j].evaluated # <<>>
       /\ matched[j].evaluated # matched[i].evaluated
       /\ matched[j].evaluated = handlers

-----------------------------------------------------------------------------
(* LoadHandlers, from ListHandlers to the assignment of the snapshot, on    *)
(* stores that hold handlers whose full record GetHandler cannot fetch.     *)

LoadIds == {"a", "b", "c"}

\* register_handler data with a cooldown that is no number: the row is
\* listed by ListHandlers, and the Scan of GetHandler fails on it
UnfetchableData(id) ==
  HandlerData(id, FilterAll, StaticAction(<<SendMessage(Placeholder("from"))>>), 5)
  @@ ("cooldown_seconds" :> S(<<"soon">>))

FetchableData(id) ==
  HandlerData(id, FilterAll, StaticAction(<<SendMessage(Placeholder("from"))>>), 1)

\* what earlier runs left of one handler: nothing, or a registered handler,
\* enabled or disabled
LoadChoices(id) ==
  {<<>>}
  \cup {<<[data |-> d, enabled |-> e]>> :
          d \in {FetchableData(id), UnfetchableData(id)}, e \in BOOLEAN}

RECURSIVE StoreOf(_, _, _)
StoreOf(db, choice, ids) ==
  IF ids = {} THEN db
  ELSE LET id == CHOOSE x \in ids : TRUE
           registered == IF choice[id] = <<>> THEN db
                         ELSE handleRegisterHandler(db, choice[id][1].data).store
           saved == IF choice[id] = <<>> THEN db
                    ELSE UpdateHandlerEnabled(registered, id, choice[id][1].enabled)
       IN StoreOf(saved, choice, ids \ {id})

LoadStores ==
  {StoreOf(EmptyStore, choice, LoadIds) :
     choice \in {c \in [LoadIds -> UNION {LoadChoices(id) : id \in LoadIds}] :
                   \A id \in LoadIds : c[id] \in LoadChoices(id)}}

\* NewEventMatcher: no handler is loaded yet; initializeSystem then calls
\* LoadHandlers
InitLoad ==
  /\ now = StartTime
  /\ store \in LoadStores
  /\ executions = <<>>
  /\ handlers = <<>>
  /\ rateLimits = NoLimiters
  /\ units = <<>>
  /\ sent = <<>>
  /\ mainloop = Idle
  /\ matched = <<>>
  /\ arg = <<>>
  /\ ret = <<>>

NextLoad ==
  \/ Delete
  \/ Enable
  \/ Disable
  \/ ReloadList
  \/ ReloadGet
  \/ ReloadSwap

SpecLoad == InitLoad /\ [][NextLoad]_vars

\* the enabled handlers of the store
EnabledIds(db) == {id \in HandlerIds : db[id] # <<>> /\ db[id][1].enabled = 1}

\* the enabled handlers whose full record cannot be fetched
FailingIds(db) == {id \in EnabledIds(db) : GetHandler(db, id).err}

\* the load that is in progress is about to fetch a handler it listed, and
\* GetHandler fails for it
FetchFails ==
  /\ mainloop.op # <<>>
  /\ mainloop.op[1].name = "reload"
  /\ mainloop.op[1].ids # <<>>
  /\ GetHandler(store, Head(mainloop.op[1].ids)).err

\* the load that is in progress has been through its list, and could not
\* fetch a handler of it
FetchFailed ==
  /\ mainloop.op # <<>>
  /\ mainloop.op[1].name = "reload"
  /\ mainloop.op[1].ids = <<>>
  /\ FailingIds(store) # {}

\* the snapshot holds the full record of each of the handlers, once
HoldsExactly(snapshot, db, ids) ==
  /\ Len(snapshot) = Cardinality(ids)
  /\ \A id \in ids : \E k \in DOMAIN snapshot : snapshot[k] = GetHandler(db, id).handler

\* C20: when GetHandler fails for a handler during a load, the load still
\* installs a new snapshot, and the snapshot holds exactly the other enabled
\* handlers of the store.
C20_FailedFetchIsSkipped ==
  [][/\ FetchFails =>
          /\ mainloop'.op # <<>>
          /\ mainloop'.op[1].name = "reload"
          /\ mainloop'.op[1].ids = Tail(mainloop.op[1].ids)
     /\ FetchFailed =>
          /\ mainloop'.op = <<>>
          /\ mainloop'.count = mainloop.count + 1
          /\ HoldsExactly(handlers', store', EnabledIds(store') \ FailingIds(store'))]_vars

\* the first load is over: one enabled handler could not be fetched and is
\* not in the snapshot, two others are
C20_Witness ==
  /\ mainloop = [count |-> 1, op |-> <<>>]
  /\ Len(handlers) = 2
  /\ Cardinality(FailingIds(store)) = 1
  /\ \A k \in DOMAIN handlers : GoString(handlers[k], "handler_id")[1] \notin FailingIds(store)

-----------------------------------------------------------------------------
(* Function-level specification of handleRegisterHandler on input data that *)
(* lacks required fields, with the snapshot of the matcher loaded.          *)

Complete == HandlerData("a", FilterFromBob, PythonAction, 5)

\* the function m without the key
Lacking(m, key) == [x \in DOMAIN m \ {key} |-> m[x]]

\* input.Data: complete, or without a required field, or with a handler_id
\* that is empty or no string
RegisterData ==
  {Complete, <<>>,
   Lacking(Complete, "handler_id"), Lacking(Complete, "event_filter"),
   Lacking(Complete, "action"),
   ("handler_id" :> S(<<>>)) @@ Complete,
   ("handler_id" :> N(1)) @@ Complete,
   Lacking(Lacking(Complete, "action"), "event_filter")}

InitRegister ==
  /\ now = StartTime
  /\ store \in LoadStores
  /\ executions = <<>>
  /\ handlers = LoadHandlers(store, <<>>)
  /\ rateLimits = NoLimiters
  /\ units = <<>>
  /\ sent = <<>>
  /\ mainloop = Idle
  /\ matched = <<>>
  /\ arg \in [data : RegisterData]
  /\ ret = <<>>

ApplyRegisterHandler ==
  /\ ret = <<>>
  /\ "data" \in DOMAIN arg
  /\ LET r == handleRegisterHandler(store, arg.data)
     IN /\ store' = r.store
        /\ ret' = <<[ok |-> r.ok]>>
  /\ UNCHANGED <<now, executions, handlers, rateLimits, units, sent, mainloop, matched, arg>>

SpecRegister == InitRegister /\ [][ApplyRegisterHandler]_vars

\* the data has no handler_id, or an empty one, or no event_filter, or no action
LacksRequired(data) ==
  \/ "handler_id" \notin DOMAIN data
  \/ data["handler_id"].k = "string" /\ data["handler_id"].v = <<>>
  \/ "event_filter" \notin DOMAIN data
  \/ "action" \notin DOMAIN data

\* C21: register_handler with a missing or empty handler_id, or with a
\* missing event_filter or action, returns a failed result and leaves the
\* handler store and the snapshot of the matcher unchanged.
C21_InvalidRegistrationChangesNothing ==
  [][LacksRequired(arg.data) =>
       /\ ret' = <<[ok |-> FALSE]>>
       /\ store' = store
       /\ handlers' = handlers]_vars

\* a registration of handler a without an action failed while the store
\* holds handler a and the snapshot is loaded
C21_Witness ==
  /\ ret = <<[ok |-> FALSE]>>
  /\ "data" \in DOMAIN arg
  /\ arg.data = Lacking(Complete, "action")
  /\ store["a"] # <<>>
  /\ handlers # <<>>

-----------------------------------------------------------------------------
(* The units when a call of the store may fail: LogHandlerExecution,        *)
(* GetHandler and SaveHandler of UpdateCircuitBreaker, UpdateHandlerStats.  *)
(* executeHandler drops the error of each of them.                          *)

\* handlers with static actions, a alone or with b
FaultyStores ==
  LET a == handleRegisterHandler(EmptyStore,
             HandlerData("a", FilterAll,
                         StaticAction(<<SendMessage(Placeholder("from"))>>), 5)).store
  IN {a, handleRegisterHandler(a,
             HandlerData("b", FilterFromBob,
                         StaticAction(<<SendMessage(Placeholder("chat"))>>), 1)).store}

InitFaulty ==
  /\ now = StartTime
  /\ store \in FaultyStores
  /\ executions = <<>>
  /\ handlers = LoadHandlers(store, <<>>)
  /\ rateLimits = NoLimiters
  /\ units = <<>>
  /\ sent = <<>>
  /\ mainloop = Idle
  /\ matched = <<>>
  /\ arg = {}
  /\ ret = <<>>

\* a unit that gives up at the first store call that fails
AbortOnFault(step, closing) == "done"

\* where executeHandler goes on after the store call of the step failed:
\* the error is dropped and the next statement runs
AfterFault(step, closing) ==
  CASE step = "log" -> IF closing THEN "breaker" ELSE "done"
    [] step = "get" -> "stats"
    [] step = "save" -> "stats"
    [] step = "stats" -> "done"

\* the store call of the step of unit i failed
Fault(i, step) == [unit |-> i, step |-> step, units |-> Len(units)]

\* executeHandler: the action, and LogHandlerExecution fails
UnitRunLogFails(i) ==
  /\ units[i].pc = "run"
  /\ \E outcome \in PythonOutcomes, result \in Replies :
       LET replies == [k \in DOMAIN result |-> Succeeded(result[k])]
           r == RunAction(units[i].handler, units[i].event, units[i].startTime, now,
                          <<>>, outcome, replies, replies)
       IN /\ sent' = sent \o r.calls
          /\ units' = [units EXCEPT
                         ![i].pc = AfterFault("log", r.closing),
                         ![i].success = r.success,
                         ![i].errorMsg = r.errorMsg,
                         ![i].replies = IF Len(r.calls) = 0 THEN <<>> ELSE replies]
  /\ arg' = arg \cup {Fault(i, "log")}
  /\ UNCHANGED <<now, store, executions, handlers, rateLimits, mainloop, matched, ret>>

\* UpdateCircuitBreaker: GetHandler fails, and the error is returned
UnitBreakerGetFails(i) ==
  /\ units[i].pc = "breaker"
  /\ units' = [units EXCEPT ![i].pc = AfterFault("get", TRUE)]
  /\ arg' = arg \cup {Fault(i, "get")}
  /\ UNCHANGED <<now, store, executions, handlers, rateLimits, sent, mainloop, matched, ret>>

\* UpdateCircuitBreaker: SaveHandler fails, and the error is returned
UnitBreakerSaveFails(i) ==
  /\ units[i].pc = "save"
  /\ units' = [units EXCEPT ![i].pc = AfterFault("save", TRUE), ![i].saving = <<>>]
  /\ arg' = arg \cup {Fault(i, "save")}
  /\ UNCHANGED <<now, store, executions, handlers, rateLimits, sent, mainloop, matched, ret>>

\* UpdateHandlerStats fails
UnitStatsFails(i) ==
  /\ units[i].pc = "stats"
  /\ units' = [units EXCEPT ![i].pc = AfterFault("stats", TRUE), ![i].finished = <<now>>]
  /\ arg' = arg \cup {Fault(i, "stats")}
  /\ UNCHANGED <<now, store, executions, handlers, rateLimits, sent, mainloop, matched, ret>>

NextFaulty ==
  \/ Dispatch
  \/ \E i \in DOMAIN units : UnitStart(i)
  \/ \E i \in DOMAIN units : UnitRun(i)
  \/ \E i \in DOMAIN units : UnitBreakerGet(i)
  \/ \E i \in DOMAIN units : UnitBreakerSave(i)
  \/ \E i \in DOMAIN units : UnitStats(i)
  \/ \E i \in DOMAIN units : UnitRunLogFails(i)
  \/ \E i \in DOMAIN units : UnitBreakerGetFails(i)
  \/ \E i \in DOMAIN units : UnitBreakerSaveFails(i)
  \/ \E i \in DOMAIN units : UnitStatsFails(i)

SpecFaulty == InitFaulty /\ [][NextFaulty]_vars

\* the next step of unit j, its store call failing or not
FaultyStepOf(j) ==
  \/ UnitRun(j) \/ UnitBreakerGet(j) \/ UnitBreakerSave(j) \/ UnitStats(j)
  \/ UnitBreakerGetFails(j) \/ UnitBreakerSaveFails(j) \/ UnitStatsFails(j)

\* C22: when the execution-log append, the breaker update or the stats
\* update of a unit fails, the unit is not aborted: it can take its next
\* step until it has gone through the stats update, the last statement of
\* executeHandler; and an inbound event can still be matched and dispatched.
C22_FaultDoesNotAbort ==
  \A f \in arg :
    /\ units[f.unit].pc # "done" => ENABLED FaultyStepOf(f.unit)
    /\ units[f.unit].pc = "done" => units[f.unit].finished # <<>>
    /\ Len(units) < MaxUnits => ENABLED Dispatch

\* the log append of a unit failed, the unit went on through the breaker
\* update and the stats update, and a later event was dispatched
C22_Witness ==
  \E f \in arg :
    /\ f.step = "log"
    /\ units[f.unit].pc = "done"
    /\ units[f.unit].finished # <<>>
    /\ executions = <<>>
    /\ Row(HandlerID(units[f.unit].handler)).execution_count
         + Row(HandlerID(units[f.unit].handler)).total_errors = 1
    /\ Len(units) > f.units

\* the stored total_errors of handler id in the store db, 0 without a row
TotalErrors(db, id) == IF db[id] = <<>> THEN 0 ELSE db[id][1].total_errors

\* unit i, whose execution succeeded, takes one of its closing steps
SuccessfulUnitSteps(i) ==
  /\ units[i].success
  /\ units[i].pc \in {"breaker", "save", "stats"}
  /\ units'[i].pc # units[i].pc

\* C23 as stated: a successful execution of a handler never resets or
\* decreases the stored total_errors of the handler.  No closing step of a
\* unit that succeeded changes the total_errors of its handler, so the
\* value after the unit equals the value before it.
C23_AsStated ==
  [][\A i \in DOMAIN units :
       SuccessfulUnitSteps(i) =>
         TotalErrors(store', HandlerID(units[i].handler))
           = TotalErrors(store, HandlerID(units[i].handler))]_vars

\* the script of unit u returned an object that holds an actions list and
\* nothing else
ReturnedActionsOnly(u) ==
  /\ u.answer # <<>>
  /\ u.answer[1].err = <<>>
  /\ DOMAIN u.answer[1].result = {"actions"}
  /\ u.answer[1].result["actions"].k = "list"
  /\ u.answer[1].result["actions"].v # <<>>

\* C24 as stated: a scripted handler whose returned value is an object that
\* holds only an actions list, without a success field, has those actions
\* executed and its execution recorded as successful.
C24_AsStated ==
  \A i \in DOMAIN units :
    (units[i].pc \notin {"start", "run"} /\ ReturnedActionsOnly(units[i])) =>
      /\ units[i].success
      /\ units[i].replies # <<>>
      /\ executions[units[i].logged].success = 1

-----------------------------------------------------------------------------
(* prepareEventData and downloadMedia in the units of one inbound event.    *)
(* arg.files is the content of the directory whatsapp_media.                *)

MaxMediaUnits == 3

MediaTypes == {"image", "video", "audio", "document", "sticker"}

\* the extension of the switch of downloadMedia
Ext(mediaType) ==
  CASE mediaType = "image" -> ".jpg"
    [] mediaType = "video" -> ".mp4"
    [] mediaType = "audio" -> ".ogg"
    [] mediaType = "document" -> ".bin"
    [] OTHER -> ""

\* filePath: fmt.Sprintf("%s_%s%s", messageID, mediaType, ext) in tempDir
FilePath(messageID, mediaType) == <<messageID, "_", mediaType, Ext(mediaType)>>

\* the inbound events: with media, with an empty media type, without media
MediaEvents ==
  {MessageFrom("alice", "m1") @@ ("media_type" :> S(<<t>>)) : t \in MediaTypes}
  \cup {MessageFrom("alice", "m1") @@ ("media_type" :> S(<<>>)), MessageFrom("alice", "m1")}

\* the file path of the media of the event
PathOf(event) == FilePath(GoString(event, "message_id")[1], GoString(event, "media_type")[1])

InitMedia ==
  /\ now = StartTime
  /\ store = <<>>
  /\ executions = <<>>
  /\ handlers = <<>>
  /\ rateLimits = <<>>
  /\ \E event \in MediaEvents, n \in 1..MaxMediaUnits :
       units = [i \in 1..n |-> [event |-> event, pc |-> "prepare", eventData |-> <<>>]]
  /\ sent = <<>>
  /\ mainloop = <<>>
  /\ matched = <<>>
  /\ arg = [files |-> {}]
  /\ ret = <<>>

\* prepareEventData up to os.Stat: without a media type the event data is
\* the event; downloadMedia fails at once without a message id
MediaPrepare(i) ==
  /\ units[i].pc = "prepare"
  /\ units' = IF GoString(units[i].event, "media_type") = <<>>
              THEN [units EXCEPT ![i].pc = "done",
                                 ![i].eventData = <<prepareEventData(units[i].event, <<>>)>>]
              ELSE IF GoString(units[i].event, "message_id") = <<>>
              THEN [units EXCEPT ![i].pc = "done",
                                 ![i].eventData = <<prepareEventData(units[i].event, <<>>)>>]
              ELSE [units EXCEPT ![i].pc = "stat"]
  /\ UNCHANGED <<now, store, executions, handlers, rateLimits, sent, mainloop, matched,
                 arg, ret>>

\* downloadMedia: os.Stat(filePath), and the path is returned if the file is there
MediaStat(i) ==
  /\ units[i].pc = "stat"
  /\ units' = IF PathOf(units[i].event) \in arg.files
              THEN [units EXCEPT
                      ![i].pc = "done",
                      ![i].eventData = <<prepareEventData(units[i].event,
                                                          <<PathOf(units[i].event)>>)>>]
              ELSE [units EXCEPT ![i].pc = "download"]
  /\ UNCHANGED <<now, store, executions, handlers, rateLimits, sent, mainloop, matched,
                 arg, ret>>

\* downloadMedia: CallWhatsmeowMethod("DownloadMediaWithPath", params)
MediaDownload(i) ==
  /\ units[i].pc = "download"
  /\ sent' = Append(sent, Call("DownloadMediaWithPath", PathOf(units[i].event)))
  /\ \E result \in CallResults :
       IF Succeeded(result)
       THEN /\ arg' = [arg EXCEPT !.files = @ \cup {PathOf(units[i].event)}]
            /\ units' = [units EXCEPT
                           ![i].pc = "done",
                           ![i].eventData = <<prepareEventData(units[i].event,
                                                               <<PathOf(units[i].event)>>)>>]
       ELSE /\ arg' = arg
            /\ units' = [units EXCEPT
                           ![i].pc = "done",
                           ![i].eventData = <<prepareEventData(units[i].event, <<>>)>>]
  /\ UNCHANGED <<now, store, executions, handlers, rateLimits, mainloop, matched, ret>>

NextMedia ==
  \/ \E i \in DOMAIN units : MediaPrepare(i)
  \/ \E i \in DOMAIN units : MediaStat(i)
  \/ \E i \in DOMAIN units : MediaDownload(i)

SpecMedia == InitMedia /\ [][NextMedia]_vars

\* the units whose media resolution returned a path
Resolved == {i \in DOMAIN units : /\ units[i].pc = "done"
                                  /\ "media_path" \in DOMAIN units[i].eventData[1]}

\* C25 as stated: media resolution is idempotent per (message_id,
\* media_type).  Every resolution returns the same derived path, and across
\* all units that resolve the media of one event the download call is issued
\* at most once.
C25_AsStated ==
  /\ \A i \in Resolved :
       units[i].eventData[1]["media_path"] = S(PathOf(units[i].event))
  /\ Len(sent) <= 1

-----------------------------------------------------------------------------
(* Rate limits: the process has started on a store of one handler that has  *)
(* one rate limit; inbound events are matched and dispatched while the      *)
(* units of earlier events run and the clock advances.                      *)

RateLimitKeys ==
  {"max_executions_per_minute", "max_executions_per_hour",
   "max_executions_per_sender_per_hour"}

RateStores ==
  {handleRegisterHandler(EmptyStore,
     HandlerData("a", FilterAll, StaticAction(<<SendMessage(Placeholder("from"))>>), 5)
     @@ (key :> N(1))).store : key \in RateLimitKeys}

InitRate ==
  /\ now = StartTime
  /\ store \in RateStores
  /\ executions = <<>>
  /\ handlers = LoadHandlers(store, <<>>)
  /\ rateLimits = NoLimiters
  /\ units = <<>>
  /\ sent = <<>>
  /\ mainloop = Idle
  /\ matched = <<>>
  /\ arg = <<>>
  /\ ret = <<>>

SpecRate == InitRate /\ [][NextCooldown]_vars

\* every count of the count map is at most the limit the handler has under
\* the key; a handler without the limit has none to exceed
Within(counts, handler, key) ==
  (IsInt64(handler, key) /\ handler[key].v[1] > 0)
    => \A bucket \in DOMAIN counts : counts[bucket] <= handler[key].v[1]

\* C26 as stated: for a handler with max_per_minute = N the count recorded
\* in a minute bucket never exceeds N, under any interleaving of the inbound
\* events; likewise for max_per_hour, and for max_per_sender_per_hour for
\* each sender.
C26_AsStated ==
  \A k \in DOMAIN handlers :
    LET id == HandlerID(handlers[k])
    IN rateLimits[id] # <<>> =>
         /\ Within(rateLimits[id][1].perMinuteCounts, handlers[k],
                   "max_executions_per_minute")
         /\ Within(rateLimits[id][1].perHourCounts, handlers[k], "max_executions_per_hour")
         /\ \A sender \in DOMAIN rateLimits[id][1].perSenderCounts :
              Within(rateLimits[id][1].perSenderCounts[sender], handlers[k],
                     "max_executions_per_sender_per_hour")

\* the units of handler id
UnitsOf(id) == {i \in DOMAIN units : HandlerID(units[i].handler) = id}

\* handler id has units, and each of them has completed after its stats update
AllCompleted(id) ==
  /\ UnitsOf(id) # {}
  /\ \A i \in UnitsOf(id) : units[i].pc = "done" /\ units[i].finished # <<>>

\* C27 as stated: when no store call fails, after the units of a handler
\* have completed, under any interleaving, the stored execution_count of
\* the handler is the number of those units and its total_errors the
\* number of those that failed.
C27_AsStated ==
  \A id \in HandlerIds :
    (AllCompleted(id) /\ store[id] # <<>>) =>
      /\ Row(id).execution_count = Cardinality(UnitsOf(id))
      /\ Row(id).total_errors = Cardinality({i \in UnitsOf(id) : ~units[i].success})

-----------------------------------------------------------------------------
(* Executions of one handler that run one after the other, each of them     *)
(* from MatchEvent to the stats update before the next begins.  arg is the  *)
(* history: for each execution its success, the circuit_breaker_state its   *)
(* breaker update handed to SaveHandler, and the state stored when it       *)
(* completed.                                                               *)

MaxExecutions == 5
MaxStoredThreshold == 2

ThresholdStores ==
  {handleRegisterHandler(EmptyStore,
     HandlerData("a", FilterAll, PythonAction, 5)
     @@ ("circuit_breaker_threshold" :> N(threshold))).store
     : threshold \in 0..MaxStoredThreshold}

InitAlone ==
  /\ now = StartTime
  /\ store \in ThresholdStores
  /\ executions = <<>>
  /\ handlers = LoadHandlers(store, <<>>)
  /\ rateLimits = NoLimiters
  /\ units = <<>>
  /\ sent = <<>>
  /\ mainloop = Idle
  /\ matched = <<>>
  /\ arg = <<>>
  /\ ret = <<>>


\* an inbound event is matched, and the unit of the first match runs alone,
\* from its first statement to its last, before the next event arrives: the
\* execution is recorded, the action runs, the execution is logged, the
\* breaker is updated from a fresh read of the record, the statistics are
\* updated
ExecuteAlone ==
  /\ Len(arg) < MaxExecutions
  /\ \E event \in {MessageFrom("alice", "m1")}, outcome \in PythonOutcomes,
        result \in Replies :
       \E m \in {MatchEvent(handlers, rateLimits, event, now)} :
         /\ m.matches # <<>>
         /\ \E handler \in {m.matches[1]},
               replies \in {[k \in DOMAIN result |-> Succeeded(result[k])]} :
              \E r \in {RunAction(handler, event, now, now, <<>>, outcome,
                                  replies, replies)},
                 g \in {GetHandler(store, HandlerID(handler))} :
                \E saving \in {IF g.err \/ ~r.closing THEN <<>>
                                ELSE BreakerUpdate(g.handler, r.success)} :
                  \E saved \in {IF saving = <<>> THEN store
                                 ELSE SaveHandler(store, saving[1])} :
                    /\ matched' = <<[event |-> event, t |-> now,
                                     handlers |-> m.matches]>>
                    /\ rateLimits' = RecordExecution(m.rateLimits,
                                         HandlerID(handler), event, now)
                    /\ sent' = sent \o r.calls
                    /\ executions' = LogHandlerExecution(executions, r.execution)
                    /\ store' = IF r.closing
                                THEN UpdateHandlerStats(saved, HandlerID(handler),
                                       r.success, r.errorMsg, now)
                                ELSE store
                    /\ arg' = Append(arg,
                         [success |-> r.success,
                          saved |-> IF saving = <<>> THEN <<>>
                                    ELSE saving[1]["circuit_breaker_state"].v,
                          stored |-> store'[HandlerID(handler)][1]
                                       .circuit_breaker_state[1]])
  /\ UNCHANGED <<now, handlers, units, mainloop, ret>>

SpecAlone == InitAlone /\ [][ExecuteAlone]_vars

\* the breaker update of execution k opened the breaker: it set the state
\* of the record to open and saved the record
Opened(k) == arg[k].saved = <<"open">>

\* the breaker update of the successful execution k closed the breaker
ClosedBySuccess(k) == arg[k].success /\ arg[k].saved = <<"closed">>

\* execution k is the first failed execution after execution j
NextFailureAfter(j, k) ==
  /\ j < k
  /\ ~arg[k].success
  /\ \A between \in (j + 1)..(k - 1) : arg[between].success

\* C28 as stated: after the breaker of a handler has opened once and a later
\* successful execution has closed it, the very next failed execution of the
\* handler re-opens the breaker.
C28_AsStated ==
  \A i, j, k \in DOMAIN arg :
    (/\ i < j
     /\ Opened(i)
     /\ ClosedBySuccess(j)
     /\ NextFailureAfter(j, k))
      => Opened(k)

-----------------------------------------------------------------------------
(* executeHandler from its first statement: RecordExecution, then           *)
(* prepareEventData with the media resolution, then the action, the         *)
(* execution record, the breaker update and the statistics.  arg.files is   *)
(* the content of the directory whatsapp_media.                             *)

MaxOrderUnits == 2

\* the inbound events: one with media and one without
OrderEvents ==
  {MessageFrom("alice", "m1") @@ ("media_type" :> S(<<"image">>)),
   MessageFrom("alice", "m1")}

InitOrder ==
  /\ now = StartTime
  /\ store = handleRegisterHandler(EmptyStore,
                HandlerData("a", FilterAll, PythonAction, 5)).store
  /\ executions = <<>>
  /\ handlers = LoadHandlers(store, <<>>)
  /\ rateLimits = NoLimiters
  /\ units = <<>>
  /\ sent = <<>>
  /\ mainloop = Idle
  /\ matched = <<>>
  /\ arg = [files |-> {}]
  /\ ret = <<>>

\* ExecuteHandlersForEvent: MatchEvent and one goroutine for each match
OrderDispatch ==
  /\ Len(units) < MaxOrderUnits
  /\ \E event \in OrderEvents :
       LET r == MatchEvent(handlers, rateLimits, event, now)
       IN /\ matched' = <<[event |-> event, t |-> now, handlers |-> r.matches]>>
          /\ rateLimits' = r.rateLimits
          /\ units' = units \o [i \in DOMAIN r.matches |->
                                  [eventData |-> <<>>] @@ NewUnit(r.matches[i], event)]
  /\ UNCHANGED <<now, store, executions, handlers, sent, mainloop, arg, ret>>

\* a unit that prepares its event data before it recorded anything
OrderStartUnrecorded(i) ==
  /\ units[i].pc = "start"
  /\ units' = [units EXCEPT ![i].pc = "prepare", ![i].startTime = now]
  /\ UNCHANGED <<now, store, executions, handlers, rateLimits, sent, mainloop, matched,
                 arg, ret>>

\* executeHandler: startTime and RecordExecution, the first statements
OrderStart(i) ==
  /\ units[i].pc = "start"
  /\ rateLimits' = RecordExecution(rateLimits, HandlerID(units[i].handler),
                                   units[i].event, now)
  /\ units' = [units EXCEPT ![i].pc = "prepare", ![i].startTime = now]
  /\ UNCHANGED <<now, store, executions, handlers, sent, mainloop, matched, arg, ret>>

\* the unit has its event data and has not yet invoked its action
Prepared(u) == u.pc = "done" /\ u.eventData # <<>> /\ u.logged = 0

\* what downloadMedia returned to prepareEventData
Downloaded(u) ==
  IF "media_path" \in DOMAIN u.eventData[1] THEN <<u.eventData[1]["media_path"].v>>
  ELSE <<>>

\* executeHandler from the action definition to the execution record
OrderRun(i) ==
  /\ Prepared(units[i])
  /\ \E outcome \in PythonOutcomes, result \in Replies :
       LET replies == [k \in DOMAIN result |-> Succeeded(result[k])]
           r == RunAction(units[i].handler, units[i].event, units[i].startTime, now,
                          Downloaded(units[i]), outcome, replies, replies)
       IN /\ sent' = sent \o r.calls
          /\ executions' = LogHandlerExecution(executions, r.execution)
          /\ units' = [units EXCEPT
                         ![i].pc = IF r.closing THEN "breaker" ELSE "done",
                         ![i].success = r.success,
                         ![i].errorMsg = r.errorMsg,
                         ![i].logged = Len(executions) + 1]
  /\ UNCHANGED <<now, store, handlers, rateLimits, mainloop, matched, arg, ret>>

NextOrder ==
  \/ OrderDispatch
  \/ \E i \in DOMAIN units : OrderStart(i)
  \/ \E i \in DOMAIN units : MediaPrepare(i)
  \/ \E i \in DOMAIN units : MediaStat(i)
  \/ \E i \in DOMAIN units : MediaDownload(i)
  \/ \E i \in DOMAIN units : OrderRun(i)
  \/ \E i \in DOMAIN units : UnitBreakerGet(i)
  \/ \E i \in DOMAIN units : UnitBreakerSave(i)
  \/ \E i \in DOMAIN units : UnitStats(i)

SpecOrder == InitOrder /\ [][NextOrder]_vars

\* the executions the limiter of handler id has counted in the hour of t
RecordedInHour(id, t) ==
  IF rateLimits[id] = <<>> THEN 0
  ELSE Count(rateLimits[id][1].perHourCounts, GoDiv(t, SecondsPerHour))

\* the unit has completed: its last statement has been executed
Completed(u) == u.pc = "done" /\ u.logged # 0

\* C29: in every execution unit RecordExecution is performed first, before
\* the media resolution and before the action is invoked, and the increments
\* it made stay in place whether the unit later succeeds or fails.  The first
\* step of a unit is RecordExecution and nothing else: no download call, no
\* file, no event data, no execution record, no store write.  No later step
\* of a unit changes the limiter.  So the count of the hour is at every
\* moment the number of the units that have taken their first step, whatever
\* became of them.
C29_RecordedFirstAndKept ==
  /\ [](RecordedInHour("a", now) = Started)
  /\ [][\A i \in DOMAIN units :
          /\ (units[i].pc = "start" /\ units'[i] # units[i]) =>
               /\ rateLimits' = RecordExecution(rateLimits, HandlerID(units[i].handler),
                                                units[i].event, now)
               /\ units'[i].eventData = <<>>
               /\ units'[i].logged = 0
               /\ <<sent, arg, executions, store>>' = <<sent, arg, executions, store>>
          /\ (units[i].pc # "start" /\ units'[i] # units[i]) =>
               rateLimits' = rateLimits]_vars

\* two units have completed, one failed and one succeeded, the media of one
\* was resolved, and both executions are counted
C29_Witness ==
  /\ \E i, j \in DOMAIN units :
       /\ Completed(units[i]) /\ ~units[i].success
       /\ Completed(units[j]) /\ units[j].success
       /\ Downloaded(units[i]) # <<>>
  /\ RecordedInHour("a", now) = 2

-----------------------------------------------------------------------------
(* The directives of one unit: the units of the specification SpecUnit run  *)
(* on stores whose static actions hold directives that make different       *)
(* calls, so that the order and the number of the calls can be seen.        *)

\* the action definitions register_handler is called with; the second list
\* starts with an element that is no JSON object
DirectiveActions ==
  { StaticAction(<<SendMessage(Placeholder("message_id")), SendMessage(Placeholder("from"))>>),
    StaticAction(<<SendMessage(Placeholder("from")), SendMessage(Placeholder("message_id"))>>),
    StaticAction(<<S(<<"junk">>), SendMessage(Placeholder("from"))>>),
    StaticAction(<<Delay(0), SendMessage(Placeholder("from"))>>),
    PythonAction }

InitDirectives ==
  /\ now = StartTime
  /\ \E action \in DirectiveActions :
       store = handleRegisterHandler(EmptyStore,
                 HandlerData("a", FilterAll, action, 5)).store
  /\ executions = <<>>
  /\ handlers = LoadHandlers(store, <<>>)
  /\ \E event \in EngineEvents :
       LET r == MatchEvent(handlers, NoLimiters, event, now)
       IN /\ matched = <<[event |-> event, t |-> now, handlers |-> r.matches]>>
          /\ rateLimits = r.rateLimits
          /\ units = [i \in DOMAIN r.matches |-> NewUnit(r.matches[i], event)]
  /\ sent = <<>>
  /\ mainloop = Idle
  /\ arg = <<>>
  /\ ret = <<>>

SpecDirectives == InitDirectives /\ [][NextUnit]_vars

\* the calls one directive makes with the event data, none for an element
\* that is no JSON object
CallsOfDirective(directive, eventData) ==
  IF directive.k # "map" THEN <<>>
  ELSE executeAction(substituteVariables(directive.v, eventData), TRUE).calls

\* the calls of the directives of a list, each once, in list order
RECURSIVE CallsInOrder(_, _)
CallsInOrder(directives, eventData) ==
  IF directives = <<>> THEN <<>>
  ELSE CallsOfDirective(Head(directives), eventData)
       \o CallsInOrder(Tail(directives), eventData)

\* the directives a unit that is past its action had to execute: those of
\* its static action, or those its scripted action returned
DirectivesDue(u) ==
  IF ~u.success THEN <<>>
  ELSE DirectivesOf(u.handler, IF u.answer # <<>> THEN u.answer[1]
                               ELSE [err |-> <<"none">>, result |-> <<>>])

\* C30: within one execution unit the directives of the action are executed
\* one at a time in list order, each directive at most once per unit: a
\* static action's directives are not executed a second time after the
\* action source returns.  The calls a unit adds in its action step are the
\* calls of its directives in list order, each once, and no other step of
\* the unit adds a call.
C30_DirectivesOnceInOrder ==
  [][\A i \in DOMAIN units :
       IF units[i].pc = "run" /\ units'[i].pc # "run"
       THEN sent' = sent \o CallsInOrder(DirectivesDue(units'[i]), units[i].event)
       ELSE units'[i] # units[i] => sent' = sent]_vars

\* a unit of a static action of two directives with different calls has
\* completed: exactly its two calls were made, in list order
C30_Witness ==
  \E i \in DOMAIN units :
    /\ units[i].pc = "done"
    /\ units[i].success
    /\ Len(units) = 1
    /\ Len(DirectivesDue(units[i])) = 2
    /\ Len(sent) = 2
    /\ sent[1] # sent[2]
    /\ sent = CallsInOrder(units[i].handler["action"].v["actions"].v, units[i].event)

-----------------------------------------------------------------------------
(* The snapshot of the matcher in the engine.                                *)

\* the step is the last one of LoadHandlers: em.handlers = fullHandlers
Swapping == Loading /\ mainloop.op[1].ids = <<>> /\ mainloop'.op = <<>>

-----------------------------------------------------------------------------
(* The per-minute limit with the check and the record of every execution    *)
(* done one after the other: arg.records holds the times of the recorded    *)
(* executions.                                                              *)

\* checkRateLimits, and RecordExecution when the check allowed the execution
CheckThenRecord ==
  /\ Len(arg.records) < MaxRecords
  /\ \E event \in LimiterEvents :
       LET r == checkRateLimits(rateLimits, arg.handler, event, now)
       IN IF r.ok
          THEN /\ rateLimits' = RecordExecution(r.rateLimits, HandlerID(arg.handler),
                                                event, now)
               /\ arg' = [arg EXCEPT !.records = Append(@, now)]
          ELSE /\ rateLimits' = r.rateLimits
               /\ arg' = arg
  /\ UNCHANGED <<now, store, executions, handlers, units, sent, mainloop, matched, ret>>

NextWindow == CheckThenRecord \/ LimiterTick

SpecWindow == InitLimiter /\ [][NextWindow]_vars

\* the recorded executions in the 60 seconds that start at time t
RecordedFrom(t) ==
  Cardinality({i \in DOMAIN arg.records : t <= arg.records[i] /\ arg.records[i] < t + 60})

\* C32 as stated: the rate limiter is a sliding window.  With
\* max_per_minute = N and check-then-record done sequentially for each
\* execution, no interval of 60 consecutive seconds contains more than N
\* recorded executions of the handler.
C32_AsStated ==
  \A i \in DOMAIN arg.records :
    RecordedFrom(arg.records[i]) <= arg.handler["max_executions_per_minute"].v[1]

-----------------------------------------------------------------------------
(* The limiter map under concurrent calls for one handler.  The units are   *)
(* goroutines, each in one call of RecordExecution, checkRateLimits or      *)
(* checkCooldown.  arg.heap holds the RateLimiter objects that were         *)
(* allocated, arg.ptr the pointer em.rateLimits holds for the handler (0:   *)
(* no entry), arg.writer and arg.readers the holders of limitsMutex, and    *)
(* arg.holder[p] the holder of the mutex of object p (0: free).             *)
(* rateLimits is the map with its pointers followed.                        *)

MaxCallers == 3

Calls == {"RecordExecution", "checkRateLimits", "checkCooldown"}

\* the handler the calls are made for
LockedHandler ==
  LimiterHandler(MaxCallers) @@ ("cooldown_seconds" :> I64(1))
  @@ ("max_executions_per_sender_per_hour" :> I64(MaxCallers))

CallerEvent == "from" :> S(<<"alice">>)

InitLocks ==
  /\ now = StartTime
  /\ store = <<>>
  /\ executions = <<>>
  /\ handlers = <<>>
  /\ rateLimits = NoLimiters
  /\ \E n \in 1..MaxCallers :
       units \in [1..n -> [call : Calls, pc : {"begin"}, limiter : {0}, seen : {<<>>},
                           t : {0}]]
  /\ sent = <<>>
  /\ mainloop = <<>>
  /\ matched = <<>>
  /\ arg = [heap |-> <<>>, ptr |-> 0, writer |-> 0, readers |-> {}, holder |-> <<>>]
  /\ ret = <<>>

\* em.rateLimits of a heap and a pointer, with the pointer followed
Deref(heap, ptr) ==
  [id \in HandlerIds |-> IF id = "a" /\ ptr # 0 THEN <<heap[ptr]>> ELSE <<>>]

\* a mutex that blocks nobody
Unguarded(p) == TRUE

\* limiter.mutex.Lock() can return: nobody holds the mutex of object p
LimiterFree(p) == arg.holder[p] = 0

\* em.limitsMutex.Lock() in RecordExecution and checkRateLimits,
\* em.limitsMutex.RLock() in checkCooldown
LockMap(i) ==
  /\ units[i].pc = "begin"
  /\ arg.writer = 0
  /\ IF units[i].call = "checkCooldown"
     THEN arg' = [arg EXCEPT !.readers = @ \cup {i}]
     ELSE arg.readers = {} /\ arg' = [arg EXCEPT !.writer = i]
  /\ units' = [units EXCEPT ![i].pc = "lookup"]
  /\ UNCHANGED <<now, store, executions, handlers, rateLimits, sent, mainloop, matched, ret>>

\* limiter, exists := em.rateLimits[handlerID]
Lookup(i) ==
  /\ units[i].pc = "lookup"
  /\ units' = [units EXCEPT ![i].limiter = arg.ptr,
                            ![i].pc = IF arg.ptr = 0 /\ units[i].call # "checkCooldown"
                                      THEN "create" ELSE "unlock"]
  /\ UNCHANGED <<now, store, executions, handlers, rateLimits, sent, mainloop, matched,
                 arg, ret>>

\* limiter = &RateLimiter{...}; em.rateLimits[handlerID] = limiter
Create(i) ==
  /\ units[i].pc = "create"
  /\ arg' = [arg EXCEPT !.heap = Append(@, NewRateLimiter), !.ptr = Len(arg.heap) + 1,
                        !.holder = Append(@, 0)]
  /\ units' = [units EXCEPT ![i].limiter = Len(arg.heap) + 1, ![i].pc = "unlock"]
  /\ rateLimits' = Deref(arg'.heap, arg'.ptr)
  /\ UNCHANGED <<now, store, executions, handlers, sent, mainloop, matched, ret>>

\* em.limitsMutex.Unlock() or RUnlock(); checkCooldown returns when the map
\* has no limiter
UnlockMap(i) ==
  /\ units[i].pc = "unlock"
  /\ arg' = [arg EXCEPT !.writer = IF @ = i THEN 0 ELSE @, !.readers = @ \ {i}]
  /\ units' = [units EXCEPT ![i].pc = IF units[i].limiter = 0 THEN "done" ELSE "lock"]
  /\ UNCHANGED <<now, store, executions, handlers, rateLimits, sent, mainloop, matched, ret>>

\* limiter.mutex.Lock()
LockLimiter(i) ==
  /\ units[i].pc = "lock"
  /\ LimiterFree(units[i].limiter)
  /\ arg' = [arg EXCEPT !.holder[units[i].limiter] = i]
  /\ units' = [units EXCEPT ![i].pc = "read"]
  /\ UNCHANGED <<now, store, executions, handlers, rateLimits, sent, mainloop, matched, ret>>

\* now := time.Now() and the reads of the fields of the limiter
ReadLimiter(i) ==
  /\ units[i].pc = "read"
  /\ units' = [units EXCEPT ![i].seen = <<arg.heap[units[i].limiter]>>, ![i].t = now,
                            ![i].pc = IF units[i].call = "checkCooldown"
                                      THEN "release" ELSE "write"]
  /\ UNCHANGED <<now, store, executions, handlers, rateLimits, sent, mainloop, matched,
                 arg, ret>>

\* the writes of the call to the fields of the limiter: the counts, the
\* last execution and the cleanup of RecordExecution, the sender map of
\* checkRateLimits
WriteLimiter(i) ==
  /\ units[i].pc = "write"
  /\ LET seen == Deref(<<units[i].seen[1]>>, 1)
         written == IF units[i].call = "RecordExecution"
                    THEN RecordExecution(seen, "a", CallerEvent, units[i].t)
                    ELSE checkRateLimits(seen, LockedHandler, CallerEvent,
                                         units[i].t).rateLimits
     IN arg' = [arg EXCEPT !.heap[units[i].limiter] = written["a"][1]]
  /\ units' = [units EXCEPT ![i].pc = "release"]
  /\ rateLimits' = Deref(arg'.heap, arg'.ptr)
  /\ UNCHANGED <<now, store, executions, handlers, sent, mainloop, matched, ret>>

\* limiter.mutex.Unlock()
UnlockLimiter(i) ==
  /\ units[i].pc = "release"
  /\ arg' = [arg EXCEPT !.holder[units[i].limiter] = IF @ = i THEN 0 ELSE @]
  /\ units' = [units EXCEPT ![i].pc = "done"]
  /\ UNCHANGED <<now, store, executions, handlers, rateLimits, sent, mainloop, matched, ret>>

\* the clock passes into the next minute
NextMinute ==
  /\ now = StartTime
  /\ now' = now + SecondsPerMinute
  /\ UNCHANGED <<store, executions, handlers, rateLimits, units, sent, mainloop, matched,
                 arg, ret>>

NextLocks ==
  \/ \E i \in DOMAIN units : LockMap(i)
  \/ \E i \in DOMAIN units : Lookup(i)
  \/ \E i \in DOMAIN units : Create(i)
  \/ \E i \in DOMAIN units : UnlockMap(i)
  \/ \E i \in DOMAIN units : LockLimiter(i)
  \/ \E i \in DOMAIN units : ReadLimiter(i)
  \/ \E i \in DOMAIN units : WriteLimiter(i)
  \/ \E i \in DOMAIN units : UnlockLimiter(i)
  \/ NextMinute

SpecLocks == InitLocks /\ [][NextLocks]_vars

\* the RecordExecution calls that have made their writes in minute bucket m
RecordedIn(m) ==
  {i \in DOMAIN units : /\ units[i].call = "RecordExecution"
                        /\ units[i].pc \in {"release", "done"}
                        /\ GoDiv(units[i].t, SecondsPerMinute) = m}

\* C33: under any interleaving of concurrent RecordExecution, CheckLimits
\* and cooldown checks for one handler, exactly one limiter object ever
\* exists for that handler_id, and after k RecordExecution calls in one
\* minute bucket the count of the bucket is exactly k: no increment is lost.
C33_OneLimiterNoLostIncrement ==
  /\ Len(arg.heap) <= 1
  /\ \A i \in DOMAIN units : units[i].limiter \in {0, arg.ptr}
  /\ \A m \in {GoDiv(StartTime, SecondsPerMinute), GoDiv(StartTime, SecondsPerMinute) + 1} :
       Cardinality(RecordedIn(m))
         = IF arg.ptr = 0 THEN 0 ELSE Count(arg.heap[arg.ptr].perMinuteCounts, m)

\* one RecordExecution call has completed, a second one holds the mutex of
\* the limiter between its reads and its writes, and a third one waits for
\* the mutex
C33_Witness ==
  /\ \E i, j, k \in DOMAIN units :
       /\ units[i].call = "RecordExecution" /\ units[i].pc = "done"
       /\ units[j].call = "RecordExecution" /\ units[j].pc = "write"
       /\ units[k].call = "RecordExecution" /\ units[k].pc = "lock"
       /\ GoDiv(units[i].t, SecondsPerMinute) = GoDiv(units[j].t, SecondsPerMinute)
  /\ Len(arg.heap) = 1

-----------------------------------------------------------------------------
(* Two runs of the executor side by side, on stores that differ only in     *)
(* the timeout_seconds of handler a.  The first run is in the variables of  *)
(* the engine, the second one in the fields of arg of the same names.  Both *)
(* runs are given the same events, the same answers of the python tool and  *)
(* of the messaging calls, and the same durations of the tool call.         *)

MaxPairExecutions == 2

\* timeout := 30 of executeHandler
DefaultTimeout == 30

\* time.After(30 * time.Second) of callMCPTool
ToolCallTimeout == 30

\* the timeout_seconds the handler is registered with
TimeoutChoices == {1, 30, 60}

\* the seconds the python tool takes to answer
Durations == {0, 2, 31}

\* executeHandler: the timeout of the handler
TimeoutOf(handler) ==
  IF IsInt64(handler, "timeout_seconds") /\ handler["timeout_seconds"].v[1] > 0
  THEN handler["timeout_seconds"].v[1]
  ELSE DefaultTimeout

\* a tool call that is given up when the timeout of the handler has passed
callMCPToolWithin(timeout, duration, outcome) ==
  IF duration >= timeout \/ duration >= ToolCallTimeout
  THEN [err |-> <<"Python tool call failed">>, result |-> <<>>]
  ELSE outcome

\* callMCPTool as executePythonAction calls it with the timeout it was
\* given: the answer of the tool, or an error after 30 seconds
callMCPTool(timeout, duration, outcome) ==
  IF duration >= ToolCallTimeout
  THEN [err |-> <<"Python tool call failed">>, result |-> <<>>]
  ELSE outcome

TimeoutStore(timeout) ==
  handleRegisterHandler(EmptyStore,
    HandlerData("a", FilterAll, PythonAction, 5)
    @@ ("timeout_seconds" :> N(timeout))).store

\* a run that has started on the store db
StartedOn(db) ==
  [store |-> db, executions |-> <<>>, handlers |-> LoadHandlers(db, <<>>),
   rateLimits |-> NoLimiters, units |-> <<>>, sent |-> <<>>]

\* the first run
Former ==
  [store |-> store, executions |-> executions, handlers |-> handlers,
   rateLimits |-> rateLimits, units |-> units, sent |-> sent]

InitPair ==
  /\ now = StartTime
  /\ \E first, second \in TimeoutChoices :
       /\ first # second
       /\ store = TimeoutStore(first)
       /\ arg = StartedOn(TimeoutStore(second))
  /\ executions = <<>>
  /\ handlers = LoadHandlers(store, <<>>)
  /\ rateLimits = NoLimiters
  /\ units = <<>>
  /\ sent = <<>>
  /\ mainloop = Idle
  /\ matched = <<>>
  /\ ret = <<>>

\* ExecuteHandlersForEvent in one run: the run with the units of the matches
DispatchIn(run, event, t) ==
  LET r == MatchEvent(run.handlers, run.rateLimits, event, t)
  IN [run EXCEPT !.rateLimits = r.rateLimits,
                 !.units = @ \o [i \in DOMAIN r.matches |-> NewUnit(r.matches[i], event)]]

\* the next statement group of executeHandler in unit i of a run: the run
\* after it.  t is the time before the step and duration the seconds the
\* python tool takes when the step is the action
StepIn(run, i, t, duration, outcome, replies) ==
  LET u == run.units[i]
      id == HandlerID(u.handler)
  IN CASE u.pc = "start" ->
            [run EXCEPT !.rateLimits = RecordExecution(@, id, u.event, t),
                        !.units[i].pc = "run", !.units[i].startTime = t]
       [] u.pc = "run" ->
            LET r == RunAction(u.handler, u.event, u.startTime, t + duration, <<>>,
                               callMCPTool(TimeoutOf(u.handler), duration, outcome),
                               replies, replies)
            IN [run EXCEPT !.sent = @ \o r.calls,
                           !.executions = LogHandlerExecution(@, r.execution),
                           !.units[i].pc = IF r.closing THEN "breaker" ELSE "done",
                           !.units[i].success = r.success,
                           !.units[i].errorMsg = r.errorMsg,
                           !.units[i].logged = Len(run.executions) + 1]
       [] u.pc = "breaker" ->
            LET g == GetHandler(run.store, id)
                saving == IF g.err THEN <<>> ELSE BreakerUpdate(g.handler, u.success)
            IN [run EXCEPT !.units[i].pc = IF saving = <<>> THEN "stats" ELSE "save",
                           !.units[i].saving = saving]
       [] u.pc = "save" ->
            [run EXCEPT !.store = SaveHandler(@, u.saving[1]),
                        !.units[i].pc = "stats", !.units[i].saving = <<>>]
       [] u.pc = "stats" ->
            [run EXCEPT !.store = UpdateHandlerStats(@, id, u.success, u.errorMsg, t),
                        !.units[i].pc = "done", !.units[i].finished = <<t>>]
       [] OTHER -> run

\* the run becomes the state of the first run
Becomes(run) ==
  /\ store' = run.store
  /\ executions' = run.executions
  /\ handlers' = run.handlers
  /\ rateLimits' = run.rateLimits
  /\ units' = run.units
  /\ sent' = run.sent

\* the same event arrives in both runs
PairDispatch ==
  /\ Len(units) < MaxPairExecutions
  /\ Len(arg.units) < MaxPairExecutions
  /\ \E event \in {MessageFrom("alice", "m1")} :
       \E former \in {DispatchIn(Former, event, now)},
          latter \in {DispatchIn(arg, event, now)} :
         /\ Becomes(former)
         /\ arg' = latter
         /\ matched' = <<[event |-> event, t |-> now, handlers |-> former.units]>>
  /\ UNCHANGED <<now, mainloop, ret>>

\* unit i is at its action in one of the runs
Acting(i) ==
  \/ i \in DOMAIN units /\ units[i].pc = "run"
  \/ i \in DOMAIN arg.units /\ arg.units[i].pc = "run"

\* the answers a step of unit i is given: those of the set when the step is
\* the action, and one that no other step reads
Given(answers, i) == IF Acting(i) THEN answers ELSE {CHOOSE x \in answers : TRUE}

\* unit i takes its next step in both runs, with the same answers
PairStep(i) ==
  /\ i \in DOMAIN units \/ i \in DOMAIN arg.units
  /\ \/ i \in DOMAIN units /\ units[i].pc # "done"
     \/ i \in DOMAIN arg.units /\ arg.units[i].pc # "done"
  /\ \E outcome \in Given(PythonOutcomes, i), result \in Given(Replies, i),
        duration \in IF Acting(i) THEN Durations ELSE {0} :
       LET replies == [k \in DOMAIN result |-> Succeeded(result[k])]
       IN \E former \in {IF i \in DOMAIN units
                         THEN StepIn(Former, i, now, duration, outcome, replies)
                         ELSE Former},
             latter \in {IF i \in DOMAIN arg.units
                         THEN StepIn(arg, i, now, duration, outcome, replies)
                         ELSE arg} :
            /\ Becomes(former)
            /\ arg' = latter
            /\ now' = now + duration
  /\ UNCHANGED <<mainloop, matched, ret>>

NextPair == PairDispatch \/ \E i \in 1..MaxPairExecutions : PairStep(i)

SpecPair == InitPair /\ [][NextPair]_vars

\* a store without the timeout_seconds of its rows
WithoutTimeout(db) ==
  [id \in DOMAIN db |-> IF db[id] = <<>> THEN <<>>
                        ELSE <<[db[id][1] EXCEPT !.timeout_seconds = <<>>]>>]

\* the units of a run without the snapshot records they were started with
Positions(us) == [i \in DOMAIN us |-> [us[i] EXCEPT !.handler = <<>>, !.saving = <<>>]]

\* what the breaker update of a unit hands to SaveHandler, without its
\* timeout_seconds
Saving(us) ==
  [i \in DOMAIN us |->
     IF us[i].saving = <<>> THEN <<>>
     ELSE [key \in DOMAIN us[i].saving[1] \ {"timeout_seconds"} |-> us[i].saving[1][key]]]

-----------------------------------------------------------------------------
(* MatchEvent on snapshots whose handlers have a text_regex: a literal that *)
(* occurs in the text of the event, one that does not, and patterns that do *)
(* not compile.                                                             *)

RegexPatterns == {<<"hello ">>, <<"bye">>, <<"(">>, <<"hello ", "(">>}

RegexFilters == {FilterAll} \cup {"text_regex" :> S(p) : p \in RegexPatterns}

RegexSnapshots ==
  UNION {{[i \in DOMAIN ids |->
             MatchRecord(ids[i], [enabled |-> TRUE, priority |-> 5, filter |-> f[i]])]
            : f \in [DOMAIN ids -> RegexFilters]}
         : ids \in IdOrders}

InitRegex ==
  /\ EngineOff
  /\ arg \in [snapshot : RegexSnapshots, event : MatchEvents]
  /\ ret = <<>>

SpecRegex == InitRegex /\ [][ApplyMatchEvent]_vars

\* the text_regex of the handler does not compile
Malformed(handler) ==
  RegexpMatchString(GoString(handler["event_filter"].v, "text_regex"), <<>>).err

\* C35: a handler whose text_regex is malformed is never returned by
\* MatchEvent, and MatchEvent still completes normally and returns every
\* other handler that matches the event.
C35_MalformedRegexIsNoMatch ==
  (ret # <<>> /\ "snapshot" \in DOMAIN arg) =>
    /\ \A i \in DOMAIN ret[1] : ~Malformed(ret[1][i])
    /\ \A i \in DOMAIN arg.snapshot :
         (~Malformed(arg.snapshot[i]) /\ matchesFilter(arg.snapshot[i], arg.event))
           => arg.snapshot[i] \in Range(ret[1])
    /\ Len(ret[1]) <= Len(arg.snapshot)

\* a call on a snapshot that holds a handler with a malformed pattern before
\* a handler whose pattern matches the event: the call returned the latter
C35_Witness ==
  /\ ret # <<>>
  /\ "snapshot" \in DOMAIN arg
  /\ Len(arg.snapshot) >= 2
  /\ Malformed(arg.snapshot[1])
  /\ GoString(arg.snapshot[2]["event_filter"].v, "text_regex") = <<"hello ">>
  /\ ret[1] # <<>>
  /\ arg.snapshot[2] \in Range(ret[1])

-----------------------------------------------------------------------------
(* executeReturnedActions on lists that hold directives the loop skips.     *)

MaxListed == 3

\* directives that make a call when they are executed
SendingDirectives == {SendMessage(<<"alice">>), SendMessage(<<"bob">>)}

\* a directive of unknown type, directives that lack a required field, and
\* a send_reaction directive
SkippedDirectives ==
  { M("type" :> S(<<"shout">>)),
    M(("type" :> S(<<"send_message">>)) @@ ("message" :> M("conversation" :> S(<<"hello ">>)))),
    M(("type" :> S(<<"send_message">>)) @@ ("to" :> S(<<"alice">>))),
    M("type" :> S(<<"send_presence">>)),
    M(("type" :> S(<<"send_reaction">>)) @@ ("to" :> S(<<"alice">>))
      @@ ("emoji" :> S(<<"+">>))) }

Listed == SendingDirectives \cup SkippedDirectives \cup {Delay(0)}

InitSkip ==
  /\ EngineOff
  /\ \E n \in 1..MaxListed :
       arg \in [actions : [1..n -> Listed], replies : [1..n -> BOOLEAN]]
  /\ ret = <<>>

ApplyExecuteReturnedActions ==
  /\ ret = <<>>
  /\ "actions" \in DOMAIN arg
  /\ ret' = <<executeReturnedActions(arg.actions, MessageFrom("alice", "m1"), arg.replies)>>
  /\ UNCHANGED <<arg, engineVars>>

SpecSkip == InitSkip /\ [][ApplyExecuteReturnedActions]_vars

\* the call of a sending directive
CallOfSending(directive) ==
  Call("SendMessage", ("to" :> directive.v["to"]) @@ ("message" :> directive.v["message"]))

\* the calls of the sending directives of a list, in list order
RECURSIVE CallsOfSending(_)
CallsOfSending(actions) ==
  IF actions = <<>> THEN <<>>
  ELSE (IF Head(actions) \in SendingDirectives THEN <<CallOfSending(Head(actions))>>
        ELSE <<>>) \o CallsOfSending(Tail(actions))

\* C36: a directive of unknown type, a directive missing a required field,
\* and a send_reaction directive are skipped without being counted in
\* actions_executed, and every directive after it in the list is still
\* executed; actions_executed never exceeds the number of directives.  The
\* count is the number of the delays and of the sending directives whose
\* call succeeded, and the calls made are those of all sending directives of
\* the list, in list order.
C36_SkippedNotCountedRestExecuted ==
  (ret # <<>> /\ "actions" \in DOMAIN arg) =>
    /\ ret[1].executed
         = Cardinality({i \in DOMAIN arg.actions :
              \/ arg.actions[i] = Delay(0)
              \/ arg.actions[i] \in SendingDirectives /\ arg.replies[i]})
    /\ ret[1].calls = CallsOfSending(arg.actions)
    /\ ret[1].executed <= Len(arg.actions)

\* a list with a skipped directive between two sending directives: both
\* calls were made, and two directives were counted
C36_Witness ==
  /\ ret # <<>>
  /\ "actions" \in DOMAIN arg
  /\ Len(arg.actions) = 3
  /\ arg.actions[1] \in SendingDirectives
  /\ arg.actions[2] \in SkippedDirectives
  /\ arg.actions[3] \in SendingDirectives
  /\ Len(ret[1].calls) = 2
  /\ ret[1].executed = 2

-----------------------------------------------------------------------------
(* The directive list of a snapshot record, shared by the units of the      *)
(* handler.  MatchEvent returns the maps the snapshot holds, so a unit has  *)
(* a reference to its record: units[i].ref is the index of the record in    *)
(* handlers.  Every step of a unit is one round of the loop of              *)
(* executeReturnedActions on the list the record holds.                     *)

MaxSharedUnits == 3

SharedDirectives ==
  <<SendMessage(Placeholder("from")), SendMessage(Placeholder("message_id"))>>

InitShared ==
  /\ now = StartTime
  /\ store = handleRegisterHandler(EmptyStore,
               HandlerData("a", FilterAll, StaticAction(SharedDirectives), 5)).store
  /\ executions = <<>>
  /\ handlers = LoadHandlers(store, <<>>)
  /\ rateLimits = NoLimiters
  /\ units = <<>>
  /\ sent = <<>>
  /\ mainloop = Idle
  /\ matched = <<>>
  /\ arg = <<>>
  /\ ret = <<>>

\* the index in the snapshot of the record MatchEvent returned
RefOf(handler) == CHOOSE j \in DOMAIN handlers : handlers[j] = handler

\* ExecuteHandlersForEvent: MatchEvent and one goroutine for each match
SharedDispatch ==
  /\ Len(units) < MaxSharedUnits
  /\ \E event \in EngineEvents :
       LET r == MatchEvent(handlers, rateLimits, event, now)
       IN /\ matched' = <<[event |-> event, t |-> now, handlers |-> r.matches]>>
          /\ rateLimits' = r.rateLimits
          /\ units' = units \o [i \in DOMAIN r.matches |->
                                  [ref |-> RefOf(r.matches[i]), event |-> event,
                                   next |-> 1, executed |-> 0, calls |-> <<>>]]
  /\ UNCHANGED <<now, store, executions, handlers, sent, mainloop, arg, ret>>

\* the directives of the record a unit refers to
DirectivesAt(ref) == handlers[ref]["action"].v["actions"].v

\* a substitution that writes its result into the list it was given
WrittenInPlace(directive, substituted) == M(substituted)

\* the element of the list after actionMap = ae.substituteVariables(actionMap,
\* eventData): substituteVariables fills a new map, and the assignment is to
\* the variable of the loop
ElementAfter(directive, substituted) == directive

\* one round of the loop of executeReturnedActions in unit i
SharedStep(i) ==
  /\ units[i].next <= Len(DirectivesAt(units[i].ref))
  /\ \E reply \in BOOLEAN :
       LET directive == DirectivesAt(units[i].ref)[units[i].next]
           substituted == substituteVariables(directive.v, units[i].event)
           r == executeAction(substituted, reply)
       IN /\ handlers' = [handlers EXCEPT
                            ![units[i].ref]["action"].v["actions"].v[units[i].next] =
                              ElementAfter(directive, substituted)]
          /\ sent' = sent \o r.calls
          /\ units' = [units EXCEPT ![i].next = @ + 1,
                                    ![i].executed = IF r.ok THEN @ + 1 ELSE @,
                                    ![i].calls = @ \o r.calls]
  /\ UNCHANGED <<now, store, executions, rateLimits, mainloop, matched, arg, ret>>

NextShared == SharedDispatch \/ \E i \in DOMAIN units : SharedStep(i)

SpecShared == InitShared /\ [][NextShared]_vars

\* the calls of the first n directives of the registered list for an event
CallsOfFirst(n, event) == CallsInOrder(SubSeq(SharedDirectives, 1, n), event)

\* C37: substituting variables for one event never modifies the directive
\* list held in the snapshot record of the handler.  A later event matched by
\* the same handler is substituted from the original placeholders, also when
\* units for both events run concurrently: the calls of every unit are those
\* of the registered directives with the values of its own event.
C37_SnapshotDirectivesKept ==
  /\ \A j \in DOMAIN handlers : handlers[j]["action"].v["actions"].v = SharedDirectives
  /\ \A i \in DOMAIN units :
       units[i].calls = CallsOfFirst(units[i].next - 1, units[i].event)

\* a unit of the event of alice is between its two directives, and a unit
\* of the later event of bob has made its first call, to bob
C37_Witness ==
  \E i, j \in DOMAIN units :
    /\ i < j
    /\ GoString(units[i].event, "from") = <<"alice">>
    /\ GoString(units[j].event, "from") = <<"bob">>
    /\ units[i].next = 2
    /\ units[j].next = 2
    /\ Len(units[j].calls) = 1
    /\ units[j].calls[1].params["to"] = S(<<"bob">>)

-----------------------------------------------------------------------------
(* The units under fair scheduling: every goroutine that can take a step    *)
(* eventually takes one.                                                    *)

MaxFairUnits == 2

\* the stores of handler a alone or with the scripted handler b
FairStores ==
  LET ofA == {handleRegisterHandler(EmptyStore,
                 HandlerData("a", FilterAll, action, 5)).store
                : action \in {StaticAction(<<SendMessage(Placeholder("from"))>>),
                              PythonAction, "type" :> S(<<"shell">>)}}
  IN ofA \cup {handleRegisterHandler(db, HandlerData("b", FilterAll, PythonAction, 1)).store
                 : db \in ofA}

InitFair ==
  /\ now = StartTime
  /\ store \in FairStores
  /\ executions = <<>>
  /\ handlers = LoadHandlers(store, <<>>)
  /\ rateLimits = NoLimiters
  /\ units = <<>>
  /\ sent = <<>>
  /\ mainloop = Idle
  /\ matched = <<>>
  /\ arg = <<>>
  /\ ret = <<>>

\* ExecuteHandlersForEvent: MatchEvent and one goroutine for each match
FairDispatch ==
  /\ Running
  /\ \E event \in EngineEvents :
       LET r == MatchEvent(handlers, rateLimits, event, now)
       IN /\ Len(units) + Len(r.matches) <= MaxFairUnits
          /\ matched' = <<[event |-> event, t |-> now, handlers |-> r.matches]>>
          /\ rateLimits' = r.rateLimits
          /\ units' = units \o [i \in DOMAIN r.matches |-> NewUnit(r.matches[i], event)]
  /\ UNCHANGED <<now, store, executions, handlers, sent, mainloop, arg, ret>>

\* executeHandler: startTime and RecordExecution
FairStart(i) ==
  /\ Running
  /\ units[i].pc = "start"
  /\ rateLimits' = RecordExecution(rateLimits, HandlerID(units[i].handler),
                                   units[i].event, now)
  /\ units' = [units EXCEPT ![i].pc = "run", ![i].startTime = now]
  /\ UNCHANGED <<now, store, executions, handlers, sent, mainloop, matched, arg, ret>>

\* a unit that starts only when no other unit is between its first and its
\* last statement
FairStepInTurn(i) ==
  /\ i \in DOMAIN units
  /\ \/ FairStart(i) /\ \A j \in DOMAIN units : units[j].pc \in {"start", "done"}
     \/ UnitRun(i)
     \/ UnitBreakerGet(i)
     \/ UnitBreakerSave(i)
     \/ UnitStats(i)

\* the next step of goroutine i
FairStep(i) ==
  /\ i \in DOMAIN units
  /\ \/ FairStart(i)
     \/ UnitRun(i)
     \/ UnitBreakerGet(i)
     \/ UnitBreakerSave(i)
     \/ UnitStats(i)

NextFair ==
  \/ FairDispatch
  \/ \E i \in 1..MaxFairUnits : FairStep(i)
  \/ CallMCPToolFatal

SpecFair ==
  /\ InitFair
  /\ [][NextFair]_vars
  /\ \A i \in 1..MaxFairUnits : WF_vars(FairStep(i))

\* unit i has been dispatched and has not executed its last statement
Pending(i) == i \in DOMAIN units /\ units[i].pc # "done"

\* unit i has terminated and its execution record is in the log
Terminated(i) ==
  /\ i \in DOMAIN units
  /\ units[i].pc = "done"
  /\ units[i].logged \in DOMAIN executions
  /\ executions[units[i].logged].handler_id = <<HandlerID(units[i].handler)>>

\* C38: provided every messaging, script and store call made by a unit
\* returns, every dispatched execution unit eventually terminates having
\* written its HandlerExecution record (under fair scheduling of units); no
\* unit waits on another unit.  While the process runs, every pending unit
\* can take its next step whatever the other units are doing, and every
\* pending unit terminates with its record written unless the process is
\* ended by the fatal error of a tool call that does not return.
C38_UnitsTerminate ==
  /\ [](\A i \in 1..MaxFairUnits : (Running /\ Pending(i)) => ENABLED FairStep(i))
  /\ \A i \in 1..MaxFairUnits : Pending(i) ~> (Terminated(i) \/ ~Running)

\* all units have terminated with their records while the process runs
C38_Witness ==
  /\ Running
  /\ Len(units) = MaxFairUnits
  /\ \A i \in DOMAIN units : Terminated(i)
  /\ \E i \in DOMAIN units : ~units[i].success
  /\ \E i \in DOMAIN units : units[i].success

====
